---- MODULE Spec2Model ----
(***************************************************************************)
(* A model of markdown2.py (class Markdown).                               *)
(*                                                                         *)
(* Text is a sequence of elements.  An element is a one-character string,  *)
(* or the digest of a string: md5.md5(s).hexdigest() is modelled by the    *)
(* single element "md5:" \o s, an injective function of s (digest          *)
(* collisions are not modelled).  A digest element is a run of hex digits  *)
(* for the regular expressions: a word character, not white space.         *)
(*                                                                         *)
(* Positions are Python's: 0-based, At(t, i) is t[i], Slice(t, a, b) is    *)
(* t[a:b].  Every regular expression of the source is an operator that     *)
(* computes the match Python's backtracking search returns.                *)
(***************************************************************************)
EXTENDS Integers, Sequences, FiniteSets, TLC

VARIABLES
    text,                 \* the buffer of the running call
    curr_pos,             \* _do_links: the cursor
    anchor_allowed_pos,   \* _do_links: the watermark
    pc,                   \* position of the running call
    urls,                 \* self.urls
    titles,               \* self.titles
    footnotes,            \* self.footnotes
    footnote_ids,         \* self.footnote_ids
    extras,               \* self.extras
    branch,               \* _do_links: the branch the last iteration took
    input,                \* the argument of the running call
    html_blocks,          \* self.html_blocks
    list_level,           \* self.list_level
    last_li,              \* self._last_li_endswith_two_eols
    safe_mode,            \* self.safe_mode
    lexers,               \* the lexer names Pygments knows
    output,               \* what the last convert call returned
    raised,               \* the exception the last convert call raised, or "none"
    converted             \* the arguments of the convert calls made on the instance

vars == <<text, curr_pos, anchor_allowed_pos, pc, urls, titles, footnotes,
          footnote_ids, extras, branch, input, html_blocks, list_level, last_li,
          safe_mode, lexers, output, raised, converted>>

----------------------------------------------------------------------------
(* Strings *)

At(t, i) == t[i + 1]
Slice(t, a, b) == SubSeq(t, a + 1, b)
From(t, a) == SubSeq(t, a + 1, Len(t))

\* The text a string literal denotes.
Chars(str) == [i \in 1..Len(str) |-> SubSeq(str, i, i)]

Min(S) == CHOOSE x \in S : \A y \in S : x <= y
Max(S) == CHOOSE x \in S : \A y \in S : x >= y

\* t.find(ch, from): the first index >= from holding ch, or -1.
Find(t, ch, from) ==
    LET S == {i \in from..(Len(t) - 1) : At(t, i) = ch}
    IN  IF S = {} THEN -1 ELSE Min(S)

\* t.startswith(lit, i)
StartsWithAt(t, lit, i) ==
    /\ i >= 0
    /\ i + Len(lit) <= Len(t)
    /\ \A k \in 1..Len(lit) : t[i + k] = lit[k]

\* The first index >= from where lit starts, or -1.
FindStr(t, lit, from) ==
    LET S == {i \in from..(Len(t) - Len(lit)) : StartsWithAt(t, lit, i)}
    IN  IF S = {} THEN -1 ELSE Min(S)

Contains(t, lit) == FindStr(t, lit, 0) >= 0

\* t.replace(lit, rep): the occurrences of lit, left to right, not overlapping.
RECURSIVE ReplaceFrom(_, _, _, _)
ReplaceFrom(t, lit, rep, from) ==
    LET i == FindStr(t, lit, from)
    IN  IF i < 0 THEN From(t, from)
        ELSE Slice(t, from, i) \o rep \o ReplaceFrom(t, lit, rep, i + Len(lit))

Replace(t, lit, rep) == ReplaceFrom(t, lit, rep, 0)

\* The string a sequence of elements spells.
RECURSIVE Spell(_, _, _)
Spell(t, lo, hi) ==
    IF lo > hi THEN ""
    ELSE IF lo = hi THEN t[lo]
    ELSE LET mid == (lo + hi) \div 2
         IN  Spell(t, lo, mid) \o Spell(t, mid + 1, hi)

\* '!' + md5.md5(s).hexdigest() + '!'
Md5Key(s) == <<"!", "md5:" \o Spell(s, 1, Len(s)), "!">>

UpperCase == <<"A", "B", "C", "D", "E", "F", "G", "H", "I", "J", "K", "L", "M",
               "N", "O", "P", "Q", "R", "S", "T", "U", "V", "W", "X", "Y", "Z">>
LowerCase == <<"a", "b", "c", "d", "e", "f", "g", "h", "i", "j", "k", "l", "m",
               "n", "o", "p", "q", "r", "s", "t", "u", "v", "w", "x", "y", "z">>
Digits == {"0", "1", "2", "3", "4", "5", "6", "7", "8", "9"}
Letters == {UpperCase[i] : i \in 1..26} \cup {LowerCase[i] : i \in 1..26}
\* The character ` (a string of the module cannot hold it).
BackTick == "BACKTICK"
Punct == {"!", "\"", "#", "$", "%", "&", "'", "(", ")", "*", "+", ",", "-",
          ".", "/", ":", ";", "<", "=", ">", "?", "@", "[", "\\", "]", "^",
          "_", BackTick, "{", "|", "}", "~"}
Space == {" ", "\t", "\n", "\r"}

IsDigest(c) == c \notin Letters \cup Digits \cup Punct \cup Space
IsSpace(c) == c \in Space                                        \* \s
IsWord(c) == c \in Letters \cup Digits \cup {"_"} \/ IsDigest(c)  \* \w
IsBlank(c) == c \in {" ", "\t"}                                  \* [ \t]

\* str.lower() of one character
LowerChar(c) ==
    IF \E i \in 1..26 : UpperCase[i] = c
    THEN LowerCase[CHOOSE i \in 1..26 : UpperCase[i] = c]
    ELSE c

lower(t) == [i \in 1..Len(t) |-> LowerChar(t[i])]

\* The end of the run of elements satisfying C that starts at i.
RunEnd(t, i, C(_)) ==
    Min({j \in i..Len(t) : j = Len(t) \/ ~C(At(t, j))})

----------------------------------------------------------------------------
(* g_escape_table *)

EscapedChars == {"\\", BackTick, "*", "_", "{", "}", "[", "]", "(", ")", ">", "#",
                 "+", "-", ".", "!"}

_escape_hash(ch) == Md5Key(<<ch>>)

g_escape_table == [ch \in EscapedChars |-> _escape_hash(ch)]

\* The two replace calls that hide * and _ from _do_italics_and_bold.
EscapeStarUnderscore(t) ==
    Replace(Replace(t, <<"*">>, g_escape_table["*"]), <<"_">>, g_escape_table["_"])

----------------------------------------------------------------------------
(* Literal text of the generated markup *)

HTML_REMOVED_TEXT == <<"[", "H", "T", "M", "L", "_", "R", "E", "M", "O", "V", "E", "D", "]">>
\* self.empty_element_suffix for html4tags=False, the default of __init__
empty_element_suffix == <<" ", "/", ">">>
A_HREF == <<"<", "a", " ", "h", "r", "e", "f", "=", "\"">>
A_CLOSE == <<"<", "/", "a", ">">>
IMG_SRC == <<"<", "i", "m", "g", " ", "s", "r", "c", "=", "\"">>
IMG_ALT == <<"\"", " ", "a", "l", "t", "=", "\"">>
TITLE_ATTR == <<" ", "t", "i", "t", "l", "e", "=", "\"">>
QUOT == <<"&", "q", "u", "o", "t", ";">>
SUP_OPEN == <<"<", "s", "u", "p", " ", "c", "l", "a", "s", "s", "=", "\"", "f", "o", "o",
              "t", "n", "o", "t", "e", "-", "r", "e", "f", "\"", " ", "i", "d", "=", "\"",
              "f", "n", "r", "e", "f", "-">>
SUP_HREF == <<"\"", ">", "<", "a", " ", "h", "r", "e", "f", "=", "\"", "#", "f", "n", "-">>
SUP_CLOSE == <<"<", "/", "a", ">", "<", "/", "s", "u", "p", ">">>

\* '%d' % n, for the numbers a bounded document reaches
DecStr(n) ==
    LET d == <<"0", "1", "2", "3", "4", "5", "6", "7", "8", "9">>
    IN  IF n < 10 THEN <<d[n + 1]>> ELSE <<d[(n \div 10) + 1], d[(n % 10) + 1]>>

\* re.sub(r'\W', '-', t)
NormId(t) == [i \in 1..Len(t) |-> IF IsWord(t[i]) THEN t[i] ELSE "-"]

----------------------------------------------------------------------------
(* _do_links: the link, image and footnote-reference scanner *)

MAX_LINK_TEXT_SENTINEL == 300

\* A scan that stops at the first ']' and keeps no bracket depth.
MatchingBracket_no_depth(t, start_idx) ==
    LET hi == Min({start_idx + 300, Len(t)}) - 1
        S == {p \in (start_idx + 1)..hi : At(t, p) = "]"}
    IN  IF S = {} THEN -1 ELSE Min(S)

\* The for loop that finds the matching ']': the index where it breaks, or
\* -1 when it runs to its end (the else clause of the loop).
MatchingBracket(t, start_idx) ==
    LET hi == Min({start_idx + MAX_LINK_TEXT_SENTINEL, Len(t)}) - 1
        Depth(p) == Cardinality({q \in (start_idx + 1)..(p - 1) : At(t, q) = "["})
                    - Cardinality({q \in (start_idx + 1)..(p - 1) : At(t, q) = "]"})
        S == {p \in (start_idx + 1)..hi : At(t, p) = "]" /\ Depth(p) = 0}
    IN  IF S = {} THEN -1 ELSE Min(S)

\* What follows the url of an inline tail from index e on:
\* [ \t]* ( (['"]) title \3 )? \)
InlineRest(t, e) ==
    LET k  == RunEnd(t, e, IsBlank)
        Q  == IF k < Len(t) /\ At(t, k) \in {"'", "\""}
              THEN {q \in (k + 1)..(Len(t) - 2) : At(t, q) = At(t, k) /\ At(t, q + 1) = ")"}
              ELSE {}
    IN  IF Q # {}
        THEN [ok |-> TRUE, has_title |-> TRUE, title |-> Slice(t, k + 1, Min(Q)),
              end |-> Min(Q) + 2]
        ELSE IF k < Len(t) /\ At(t, k) = ")"
        THEN [ok |-> TRUE, has_title |-> FALSE, title |-> <<>>, end |-> k + 1]
        ELSE [ok |-> FALSE, has_title |-> FALSE, title |-> <<>>, end |-> -1]

\* _tail_of_inline_link_re.match(t, p), for t[p] = '('.  The url is the first
\* <...> after which the rest matches, or else the shortest text after which
\* it does.
InlineUrlEnd(t, i) ==
    LET A1 == IF i < Len(t) /\ At(t, i) = "<"
              THEN {j \in (i + 1)..(Len(t) - 1) : At(t, j) = ">" /\ InlineRest(t, j + 1).ok}
              ELSE {}
        A2 == {e \in i..Len(t) : InlineRest(t, e).ok}
    IN  IF A1 # {} THEN Min(A1) + 1 ELSE IF A2 # {} THEN Min(A2) ELSE -1

\* The tail whose url runs from i to e, with the rest r.
InlineTail(t, i, e, r) ==
    [ok |-> TRUE, url |-> Slice(t, i, e), has_title |-> r.has_title,
     title |-> r.title, end |-> r.end]

InlineTailTo(t, i, e) ==
    IF e < 0
    THEN [ok |-> FALSE, url |-> <<>>, has_title |-> FALSE, title |-> <<>>, end |-> -1]
    ELSE InlineTail(t, i, e, InlineRest(t, e))

InlineTailFrom(t, i) == InlineTailTo(t, i, InlineUrlEnd(t, i))

_tail_of_inline_link_re(t, p) ==
    IF At(t, p) # "("
    THEN [ok |-> FALSE, url |-> <<>>, has_title |-> FALSE, title |-> <<>>, end |-> -1]
    ELSE InlineTailFrom(t, RunEnd(t, p + 1, IsBlank))

\* _tail_of_reference_link_re.match(t, p): [ ]? (?:\n[ ]*)? \[ id \]
_tail_of_reference_link_re(t, p) ==
    LET IsSp(c) == c = " "
        a == IF p < Len(t) /\ At(t, p) = " " THEN p + 1 ELSE p
        b == IF a < Len(t) /\ At(t, a) = "\n" THEN RunEnd(t, a + 1, IsSp) ELSE a
        c == IF b < Len(t) /\ At(t, b) = "[" THEN Find(t, "]", b + 1) ELSE -1
    IN  IF c < 0 THEN [ok |-> FALSE, id |-> <<>>, end |-> -1]
        ELSE [ok |-> TRUE, id |-> Slice(t, b + 1, c), end |-> c + 1]

\* is_img = start_idx > 0 and text[start_idx-1] == "!"
IsImg(t, start_idx) == start_idx > 0 /\ At(t, start_idx - 1) = "!"

\* ' title="%s"' % title, or '' (the caller has escaped the title)
TitleStr(has_title, title) ==
    IF has_title /\ title # <<>> THEN TITLE_ATTR \o title \o <<"\"">> ELSE <<>>

\* '<img src="%s" alt="%s"%s%s'
ImgResult(url, link_text, title_str) ==
    IMG_SRC \o url \o IMG_ALT \o Replace(link_text, <<"\"">>, QUOT) \o <<"\"">>
        \o title_str \o empty_element_suffix

\* result_head = '<a href="%s"%s>'
AnchorHead(url, title_str) == A_HREF \o url \o <<"\"">> \o title_str \o <<">">>

\* A test that allows an anchor wherever it starts.
AnchorAllowed_always(start_idx, allowed_pos) == TRUE

\* An anchor's start pos must be >= anchor_allowed_pos.
AnchorAllowed(start_idx, allowed_pos) == start_idx >= allowed_pos

\* An emission that moves the cursor past the whole anchor.
Emit_cursor_after_element(s, start, link_text, url, title_str, m_end, kind) ==
    IF IsImg(s.text, start)
    THEN LET start_idx == start - 1
             result == ImgResult(url, link_text, title_str)
         IN  [s EXCEPT !.curr_pos = start_idx + Len(result),
                       !.text = Slice(s.text, 0, start_idx) \o result \o From(s.text, m_end),
                       !.branch = kind \o "_img"]
    ELSE IF AnchorAllowed(start, s.anchor_allowed_pos)
    THEN LET result == AnchorHead(url, title_str) \o link_text \o A_CLOSE
         IN  [s EXCEPT !.curr_pos = start + Len(result),
                       !.anchor_allowed_pos = start + Len(result),
                       !.text = Slice(s.text, 0, start) \o result \o From(s.text, m_end),
                       !.branch = kind \o "_anchor"]
    ELSE [s EXCEPT !.curr_pos = start + 1, !.branch = kind \o "_blocked"]

\* The three outcomes shared by the inline and the reference branch: an image,
\* an anchor, or an anchor that is not allowed here.  start is the index of
\* the '[', m_end the end of the matched tail.
Emit(s, start, link_text, url, title_str, m_end, kind) ==
    IF IsImg(s.text, start)
    THEN LET start_idx == start - 1
             result == ImgResult(url, link_text, title_str)
         IN  [s EXCEPT !.curr_pos = start_idx + Len(result),
                       !.text = Slice(s.text, 0, start_idx) \o result \o From(s.text, m_end),
                       !.branch = kind \o "_img"]
    ELSE IF AnchorAllowed(start, s.anchor_allowed_pos)
    THEN LET result_head == AnchorHead(url, title_str)
             result == result_head \o link_text \o A_CLOSE
         IN  [s EXCEPT !.curr_pos = start + Len(result_head),
                       !.anchor_allowed_pos = start + Len(result),
                       !.text = Slice(s.text, 0, start) \o result \o From(s.text, m_end),
                       !.branch = kind \o "_anchor"]
    ELSE [s EXCEPT !.curr_pos = start + 1, !.branch = kind \o "_blocked"]

\* Handle an inline anchor or img.
InlineIter(s, start, link_text, m) ==
    LET url0 == m.url
        url1 == IF url0 # <<>> /\ url0[1] = "<" THEN Slice(url0, 1, Len(url0) - 1) ELSE url0
        url  == EscapeStarUnderscore(url1)
        title_str == TitleStr(m.has_title,
                              Replace(EscapeStarUnderscore(m.title), <<"\"">>, QUOT))
    IN  Emit(s, start, link_text, url, title_str, m.end, "inline")

\* The id a reference-style tail looks up.
LinkId(link_text, m) == IF lower(m.id) = <<>> THEN lower(link_text) ELSE lower(m.id)

\* A handling of an undefined id that drops the '[id]' tail from the buffer.
RefUndefined_drops_tail(s, m) ==
    [s EXCEPT !.text = Slice(s.text, 0, m.end - Len(m.id) - 2) \o From(s.text, m.end),
              !.curr_pos = m.end - Len(m.id) - 2,
              !.branch = "ref_undefined"]

\* A handling of an undefined id that resumes right after the opening '['.
RefUndefined_restarts(s, m) ==
    [s EXCEPT !.curr_pos = Find(s.text, "[", s.curr_pos) + 1, !.branch = "ref_undefined"]

\* This id isn't defined, leave the markup alone.
RefUndefined(s, m) == [s EXCEPT !.curr_pos = m.end, !.branch = "ref_undefined"]

\* Handle a reference-style anchor or img.
ReferenceIter(s, e, start, link_text, m) ==
    LET link_id == LinkId(link_text, m)
    IN  IF link_id \in DOMAIN e.urls
        THEN LET url == EscapeStarUnderscore(e.urls[link_id])
                 has_title == link_id \in DOMAIN e.titles
                 title == IF has_title THEN EscapeStarUnderscore(e.titles[link_id])
                          ELSE <<>>
             IN  Emit(s, start, link_text, url, TitleStr(has_title, title), m.end, "ref")
        ELSE RefUndefined(s, m)

\* The id a footnote reference looks up.
FootnoteRefId(link_text) == NormId(lower(From(link_text, 1)))

\* A handling of a footnote reference that leaves the reference in the buffer.
FootnoteIter_keeps_text(s, e, start, p, link_text) ==
    LET normed_id == FootnoteRefId(link_text)
    IN  IF normed_id \in DOMAIN e.footnotes
        THEN [s EXCEPT !.branch = "footnote_ref"]
        ELSE [s EXCEPT !.curr_pos = p + 1, !.branch = "footnote_undefined"]

\* Possibly a footnote ref?
FootnoteIter(s, e, start, p, link_text) ==
    LET normed_id == FootnoteRefId(link_text)
    IN  IF normed_id \in DOMAIN e.footnotes
        THEN LET ids == Append(s.footnote_ids, normed_id)
                 result == SUP_OPEN \o normed_id \o SUP_HREF \o normed_id
                           \o <<"\"", ">">> \o DecStr(Len(ids)) \o SUP_CLOSE
             IN  [s EXCEPT !.footnote_ids = ids,
                           !.text = Slice(s.text, 0, start) \o result \o From(s.text, p + 1),
                           !.branch = "footnote_ref"]
        ELSE [s EXCEPT !.curr_pos = p + 1, !.branch = "footnote_undefined"]

\* One iteration of the while loop.  s is the local state of the call (text,
\* curr_pos, anchor_allowed_pos) with self.footnote_ids; e holds what the
\* loop reads of self (extras, urls, titles, footnotes).
DoLinksIter(s, e) ==
    LET t == s.text
        start_idx == Find(t, "[", s.curr_pos)
        p == MatchingBracket(t, start_idx)
        link_text == Slice(t, start_idx + 1, p)
        q == p + 1
        mi == _tail_of_inline_link_re(t, q)
        mr == _tail_of_reference_link_re(t, q)
    IN  IF start_idx < 0
        THEN [s EXCEPT !.pc = "return", !.branch = "no_bracket"]
        ELSE IF p < 0
        THEN [s EXCEPT !.curr_pos = start_idx + 1, !.branch = "no_close"]
        ELSE IF "footnotes" \in e.extras /\ link_text # <<>> /\ link_text[1] = "^"
        THEN FootnoteIter(s, e, start_idx, p, link_text)
        ELSE IF q = Len(t)
        THEN [s EXCEPT !.pc = "return", !.branch = "end_of_text"]
        ELSE IF At(t, q) = "(" /\ mi.ok
        THEN InlineIter(s, start_idx, link_text, mi)
        ELSE IF At(t, q) # "(" /\ mr.ok
        THEN ReferenceIter(s, e, start_idx, link_text, mr)
        ELSE [s EXCEPT !.curr_pos = start_idx + 1, !.branch = "not_markup"]

\* The state of a call at its entry.
DoLinksEntry(t, ids) ==
    [text |-> t, curr_pos |-> 0, anchor_allowed_pos |-> 0, footnote_ids |-> ids,
     pc |-> "loop", branch |-> "entry"]

RECURSIVE DoLinksLoop(_, _)
DoLinksLoop(s, e) == IF s.pc = "return" THEN s ELSE DoLinksLoop(DoLinksIter(s, e), e)

\* _do_links(text): the text returned and self.footnote_ids after the call.
_do_links(t, ids, e) == DoLinksLoop(DoLinksEntry(t, ids), e)

----------------------------------------------------------------------------
(* Regular expressions: what re.sub visits, and the text it returns *)

IsNewline(c) == c = "\n"
NotNewline(c) == c # "\n"
IsSp(c) == c = " "

\* ^ and $ under re.M
IsLineStart(t, i) == i = 0 \/ At(t, i - 1) = "\n"
IsLineEnd(t, i) == i = Len(t) \/ At(t, i) = "\n"
\* The end of .* from i
LineEnd(t, i) == RunEnd(t, i, NotNewline)

\* str.lstrip, str.rstrip and str.strip of the characters satisfying C
LStrip(t, C(_)) == From(t, RunEnd(t, 0, C))
RStrip(t, C(_)) == Slice(t, 0, Max({j \in 0..Len(t) : j = 0 \/ ~C(At(t, j - 1))}))
Strip(t, C(_)) == LStrip(RStrip(t, C), C)

NoMatch == [ok |-> FALSE, start |-> -1, end |-> -1]

\* The matches re.sub visits in a text of length n, from pos on: the leftmost
\* first, none overlapping another.  M[i] is the match that starts at i.
RECURSIVE Scan(_, _, _)
Scan(M, n, pos) ==
    LET S == {i \in pos..n : M[i].ok}
    IN  IF S = {} THEN <<>>
        ELSE <<M[Min(S)]>> \o Scan(M, n, M[Min(S)].end)

\* The text re.sub returns: t with each match of ms replaced by its rep.
RECURSIVE Joined(_, _, _)
Joined(t, ms, pos) ==
    IF ms = <<>> THEN From(t, pos)
    ELSE Slice(t, pos, Head(ms).start) \o Head(ms).rep \o Joined(t, Tail(ms), Head(ms).end)

re_sub(t, M) == Joined(t, Scan(M, Len(t), 0), 0)

----------------------------------------------------------------------------
(* The span-level passes *)

\* g_escape_table.items(), in the order CPython 2 iterates this dict.
g_escape_table_items ==
    <<"!", BackTick, "#", ")", "]", "+", "*", "-", ".", "(", "[", "{", "}", "\\", "_", ">">>

\* The replacements from the k-th entry on.  An entry whose pair does not occur
\* leaves the text as it is, so the walk goes from one occurring entry to the next.
RECURSIVE EncodeBackslashFrom(_, _)
EncodeBackslashFrom(t, k) ==
    LET K == {j \in k..Len(g_escape_table_items) :
                 Contains(t, <<"\\", g_escape_table_items[j]>>)}
    IN  IF K = {} THEN t
        ELSE CHOOSE r \in
                 {EncodeBackslashFrom(t1, Min(K) + 1) : t1 \in
                     {Replace(t, <<"\\", g_escape_table_items[Min(K)]>>,
                              g_escape_table[g_escape_table_items[Min(K)]])}} : TRUE

_encode_backslash_escapes(t) == EncodeBackslashFrom(t, 1)

RECURSIVE UnescapeFrom(_, _)
UnescapeFrom(t, k) ==
    LET K == {j \in k..Len(g_escape_table_items) :
                 Contains(t, g_escape_table[g_escape_table_items[j]])}
    IN  IF K = {} THEN t
        ELSE CHOOSE r \in
                 {UnescapeFrom(t1, Min(K) + 1) : t1 \in
                     {Replace(t, g_escape_table[g_escape_table_items[Min(K)]],
                              <<g_escape_table_items[Min(K)]>>)}} : TRUE

_unescape_special_chars(t) == UnescapeFrom(t, 1)

\* The replacements list of _encode_code, in its order.
CodeReplacements ==
    <<  <<Chars("&"), Chars("&amp;")>>,
        <<Chars("<"), Chars("&lt;")>>,
        <<Chars(">"), Chars("&gt;")>>,
        <<Chars("*"), g_escape_table["*"]>>,
        <<Chars("_"), g_escape_table["_"]>>,
        <<Chars("{"), g_escape_table["{"]>>,
        <<Chars("}"), g_escape_table["}"]>>,
        <<Chars("["), g_escape_table["["]>>,
        <<Chars("]"), g_escape_table["]"]>>,
        <<Chars("\\"), g_escape_table["\\"]>>  >>

RECURSIVE EncodeCodeFrom(_, _)
EncodeCodeFrom(t, k) ==
    LET K == {j \in k..Len(CodeReplacements) : Contains(t, CodeReplacements[j][1])}
    IN  IF K = {} THEN t
        ELSE CHOOSE r \in
                 {EncodeCodeFrom(t1, Min(K) + 1) : t1 \in
                     {Replace(t, CodeReplacements[Min(K)][1], CodeReplacements[Min(K)][2])}} : TRUE

_encode_code(t) == EncodeCodeFrom(t, 1)

\* _code_span_re: (`+)(.+?)(?<!`)\1(?!`) with re.S.  The closers of a span
\* opened at i by n backticks.
IsTick(c) == c = BackTick
CodeSpanClosers(t, i, n) ==
    {q \in (i + n + 1)..(Len(t) - n) :
        /\ At(t, q - 1) # BackTick
        /\ \A k \in 0..(n - 1) : At(t, q + k) = BackTick
        /\ (q + n = Len(t) \/ At(t, q + n) # BackTick)}

\* c = match.group(2).strip(" \t"); "<code>%s</code>" % self._encode_code(c)
_code_span_sub(code) ==
    Chars("<code>") \o _encode_code(Strip(code, IsBlank)) \o Chars("</code>")

_code_span_re(t, i) ==
    IF i < Len(t) /\ At(t, i) = BackTick
    THEN LET N == {n \in 1..(RunEnd(t, i, IsTick) - i) : CodeSpanClosers(t, i, n) # {}}
         IN  IF N = {} THEN NoMatch
             ELSE [ok |-> TRUE, start |-> i,
                   end |-> Min(CodeSpanClosers(t, i, Max(N))) + Max(N),
                   rep |-> _code_span_sub(
                               Slice(t, i + Max(N), Min(CodeSpanClosers(t, i, Max(N)))))]
    ELSE NoMatch

_do_code_spans(t) == re_sub(t, [i \in 0..Len(t) |-> _code_span_re(t, i)])

\* _sorta_html_tokenize_re.  One attribute from p on,
\*   \s+(?:[\w-]+:)?[\w-]+=(?:".*?"|'.*?')
\* can end at each index of AttrEnds(t, p).
IsNameChar(c) == IsWord(c) \/ c = "-"
AttrValueEnds(t, v) ==
    IF v < Len(t) /\ At(t, v) \in {"\"", "'"}
    THEN {q + 1 : q \in {q \in (v + 1)..(LineEnd(t, v + 1)) :
                            q < Len(t) /\ At(t, q) = At(t, v)}}
    ELSE {}
AttrNameEnd(t, a) ==
    LET n1 == RunEnd(t, a, IsNameChar)
        n2 == RunEnd(t, n1 + 1, IsNameChar)
    IN  IF n1 = a \/ n1 >= Len(t) THEN -1
        ELSE IF At(t, n1) = "=" THEN n1 + 1
        ELSE IF At(t, n1) = ":" /\ n2 > n1 + 1 /\ n2 < Len(t) /\ At(t, n2) = "=" THEN n2 + 1
        ELSE -1
AttrValueAfter(t, n) == IF n >= 0 THEN AttrValueEnds(t, n) ELSE {}
AttrAfterSpace(t, p, a) == IF a > p THEN AttrValueAfter(t, AttrNameEnd(t, a)) ELSE {}
AttrEnds(t, p) == AttrAfterSpace(t, p, RunEnd(t, p, IsSpace))

\* \s*/?> from p on: its end, or -1.
TagClose(t, p) ==
    LET s == RunEnd(t, p, IsSpace)
    IN  IF s < Len(t) /\ At(t, s) = ">" THEN s + 1
        ELSE IF s + 1 < Len(t) /\ At(t, s) = "/" /\ At(t, s + 1) = ">" THEN s + 2
        ELSE -1

\* (attribute)* \s*/?> from p on: the end of what the search matches, or -1.
RECURSIVE TagTail(_, _)
TagTail(t, p) ==
    LET E == {x \in AttrEnds(t, p) : TagTail(t, x) >= 0}
    IN  IF E # {} THEN TagTail(t, Min(E)) ELSE TagClose(t, p)

\* The four alternatives, from a '<' at i: the end of the token, or -1.
TagToken(t, i) ==
    LET a == IF i + 1 < Len(t) /\ At(t, i + 1) = "/" THEN i + 2 ELSE i + 1
        w == RunEnd(t, a, IsWord)
    IN  IF a < Len(t) /\ w > a THEN TagTail(t, w) ELSE -1
AutoLinkToken(t, i) ==
    IF i + 1 < Len(t) /\ IsWord(At(t, i + 1)) /\ Find(t, ">", i + 1) >= 0
    THEN Find(t, ">", i + 1) + 1 ELSE -1
CommentToken(t, i) ==
    LET c == FindStr(t, Chars("-->"), i + 4)
    IN  IF StartsWithAt(t, Chars("<!--"), i) /\ c >= 0 /\ c <= LineEnd(t, i) THEN c + 3 ELSE -1
PIToken(t, i) ==
    LET c == FindStr(t, Chars("?>"), i + 2)
    IN  IF StartsWithAt(t, Chars("<?"), i) /\ c >= 0 /\ c <= LineEnd(t, i) THEN c + 2 ELSE -1

\* The first alternative that matches: x, or else y.
OrElse(x, y) == IF x >= 0 THEN x ELSE y

TokenEnd(t, i) ==
    OrElse(TagToken(t, i),
           OrElse(AutoLinkToken(t, i), OrElse(CommentToken(t, i), PIToken(t, i))))

\* The token from i to z (-1: there is none).
TokenAt(i, z) == IF z >= 0 THEN [ok |-> TRUE, start |-> i, end |-> z] ELSE NoMatch

_sorta_html_tokenize_re(t, i) ==
    IF i < Len(t) /\ At(t, i) = "<" THEN TokenAt(i, TokenEnd(t, i)) ELSE NoMatch

\* The loop of _escape_special_chars over the tokens of the split: text
\* tokens get their backslash escapes encoded; markup tokens are removed in
\* safe mode, and have * and _ hidden otherwise.
RECURSIVE EscapeTokens(_, _, _, _)
EscapeTokens(t, ms, pos, safe_mode_on) ==
    IF ms = <<>> THEN _encode_backslash_escapes(From(t, pos))
    ELSE _encode_backslash_escapes(Slice(t, pos, Head(ms).start))
         \o (IF safe_mode_on THEN HTML_REMOVED_TEXT
             ELSE EscapeStarUnderscore(Slice(t, Head(ms).start, Head(ms).end)))
         \o EscapeTokens(t, Tail(ms), Head(ms).end, safe_mode_on)

_escape_special_chars(t, safe_mode_on) ==
    EscapeTokens(t, Scan([i \in 0..Len(t) |-> _sorta_html_tokenize_re(t, i)], Len(t), 0),
                 0, safe_mode_on)

\* _auto_link_re: <((https?|ftp):[^'">\s]+)> with re.I
IsUrlChar(c) == c \notin {"'", "\"", ">"} /\ ~IsSpace(c)
SchemeEnd(t, i) ==
    IF lower(Slice(t, i, Min({i + 6, Len(t)}))) = Chars("https:") THEN i + 6
    ELSE IF lower(Slice(t, i, Min({i + 5, Len(t)}))) = Chars("http:") THEN i + 5
    ELSE IF lower(Slice(t, i, Min({i + 4, Len(t)}))) = Chars("ftp:") THEN i + 4
    ELSE -1
_auto_link_sub(g1) == A_HREF \o g1 \o Chars("\">") \o g1 \o A_CLOSE
AutoLinkEnd(t, i) == RunEnd(t, SchemeEnd(t, i + 1), IsUrlChar)
_auto_link_re(t, i) ==
    IF /\ i < Len(t) /\ At(t, i) = "<"
       /\ SchemeEnd(t, i + 1) >= 0
       /\ AutoLinkEnd(t, i) > SchemeEnd(t, i + 1)
       /\ AutoLinkEnd(t, i) < Len(t)
       /\ At(t, AutoLinkEnd(t, i)) = ">"
    THEN [ok |-> TRUE, start |-> i, end |-> AutoLinkEnd(t, i) + 1,
          rep |-> _auto_link_sub(Slice(t, i + 1, AutoLinkEnd(t, i)))]
    ELSE NoMatch

\* _auto_email_link_re: <(?:mailto:)?([-.\w]+\@[-\w]+(\.[-\w]+)*\.[a-zA-Z]+)> with
\* re.I.  AddrStart is where group 1 starts, for a '<' at i.
IsAddrChar(c) == IsWord(c) \/ c \in {"-", "."}
AddrStart(t, i) == IF StartsWithAt(lower(t), Chars("mailto:"), i + 1) THEN i + 8 ELSE i + 1
\* The domain t[a:b]: labels of [-\w]+ joined by dots, two at least, the last
\* one of letters only.
IsDomain(t, a, b) ==
    /\ b > a
    /\ At(t, a) # "." /\ At(t, b - 1) # "."
    /\ \A k \in a..(b - 2) : ~(At(t, k) = "." /\ At(t, k + 1) = ".")
    /\ \E d \in (a + 1)..(b - 2) :
           /\ At(t, d) = "."
           /\ \A k \in (d + 1)..(b - 1) : At(t, k) \in Letters

\* r = random() of _xml_encode_email_char_at_random: the k-th call of a
\* conversion draws rnd[k], cyclically.
Draw(rnd, k) == rnd[((k - 1) % Len(rnd)) + 1]
_xml_encode_email_char_at_random(ch, r) ==
    IF r = "raw" /\ ch # "@" THEN <<ch>>
    ELSE IF r = "hex" THEN Chars("&#x") \o <<"hex:" \o ch>> \o Chars(";")
    ELSE Chars("&#") \o <<"ord:" \o ch>> \o Chars(";")

RECURSIVE EncodeChars(_, _, _, _)
EncodeChars(addr, lo, hi, rnd) ==
    IF lo > hi THEN <<>>
    ELSE IF lo = hi THEN _xml_encode_email_char_at_random(addr[lo], Draw(rnd, lo))
    ELSE EncodeChars(addr, lo, (lo + hi) \div 2, rnd)
         \o EncodeChars(addr, ((lo + hi) \div 2) + 1, hi, rnd)

_encode_email_address(addr, rnd) ==
    A_HREF \o EncodeChars(Chars("mailto:") \o addr, 1, Len(addr) + 7, rnd) \o Chars("\">")
        \o EncodeChars(Chars("mailto:") \o addr, 8, Len(addr) + 7, rnd) \o A_CLOSE

_auto_email_link_sub(g1, rnd) == _encode_email_address(_unescape_special_chars(g1), rnd)

EmailAt(t, i) == RunEnd(t, AddrStart(t, i), IsAddrChar)
EmailEnd(t, i) == RunEnd(t, EmailAt(t, i) + 1, IsAddrChar)
_auto_email_link_re(t, i, rnd) ==
    IF /\ i < Len(t) /\ At(t, i) = "<"
       /\ EmailAt(t, i) > AddrStart(t, i)
       /\ EmailAt(t, i) < Len(t) /\ At(t, EmailAt(t, i)) = "@"
       /\ EmailEnd(t, i) < Len(t) /\ At(t, EmailEnd(t, i)) = ">"
       /\ IsDomain(t, EmailAt(t, i) + 1, EmailEnd(t, i))
    THEN [ok |-> TRUE, start |-> i, end |-> EmailEnd(t, i) + 1,
          rep |-> _auto_email_link_sub(Slice(t, AddrStart(t, i), EmailEnd(t, i)), rnd)]
    ELSE NoMatch

AutoEmailLinks(t, rnd) == re_sub(t, [i \in 0..Len(t) |-> _auto_email_link_re(t, i, rnd)])

_do_auto_links(t, rnd) ==
    AutoEmailLinks(re_sub(t, [i \in 0..Len(t) |-> _auto_link_re(t, i)]), rnd)

\* _ampersand_re: &(?!#?[xX]?(?:[0-9a-fA-F]+|\w+);)
EntityFollows(t, a) ==
    \/ RunEnd(t, a, IsWord) > a /\ RunEnd(t, a, IsWord) < Len(t)
          /\ At(t, RunEnd(t, a, IsWord)) = ";"
    \/ a < Len(t) /\ At(t, a) = "#" /\ RunEnd(t, a + 1, IsWord) > a + 1
          /\ RunEnd(t, a + 1, IsWord) < Len(t) /\ At(t, RunEnd(t, a + 1, IsWord)) = ";"
_ampersand_re(t, i) ==
    IF i < Len(t) /\ At(t, i) = "&" /\ ~EntityFollows(t, i + 1)
    THEN [ok |-> TRUE, start |-> i, end |-> i + 1, rep |-> Chars("&amp;")]
    ELSE NoMatch

\* _naked_lt_re: <(?![a-z/?\$!]) with re.I
_naked_lt_re(t, i) ==
    IF /\ i < Len(t) /\ At(t, i) = "<"
       /\ ~(i + 1 < Len(t) /\ At(t, i + 1) \in Letters \cup {"/", "?", "$", "!"})
    THEN [ok |-> TRUE, start |-> i, end |-> i + 1, rep |-> Chars("&lt;")]
    ELSE NoMatch

EncodeNakedLt(t) == re_sub(t, [i \in 0..Len(t) |-> _naked_lt_re(t, i)])

_encode_amps_and_angles(t) ==
    EncodeNakedLt(re_sub(t, [i \in 0..Len(t) |-> _ampersand_re(t, i)]))

\* _strong_re: (\*\*|__)(?=\S)(.+?[*_]*)(?<=\S)\1 with re.S, and
\* _code_friendly_strong_re, whose delimiter is ** only.  For an opening
\* delimiter at i: .+? ends at x, [*_]* ends at y, the closing one is at y.
IsStarUnderscore(c) == c \in {"*", "_"}
StrongY(t, i, x) ==
    {y \in x..RunEnd(t, x, IsStarUnderscore) :
        /\ y + 1 < Len(t)
        /\ ~IsSpace(At(t, y - 1))
        /\ At(t, y) = At(t, i) /\ At(t, y + 1) = At(t, i)}
StrongX(t, i) == {x \in (i + 3)..Len(t) : StrongY(t, i, x) # {}}
StrongClose(t, i) == Max(StrongY(t, i, Min(StrongX(t, i))))
StrongAt(t, i, delims) ==
    IF /\ i + 2 < Len(t)
       /\ At(t, i) \in delims /\ At(t, i + 1) = At(t, i)
       /\ ~IsSpace(At(t, i + 2))
       /\ StrongX(t, i) # {}
    THEN [ok |-> TRUE, start |-> i, end |-> StrongClose(t, i) + 2,
          rep |-> Chars("<strong>") \o Slice(t, i + 2, StrongClose(t, i)) \o Chars("</strong>")]
    ELSE NoMatch

\* _em_re: (\*|_)(?=\S)(.+?)(?<=\S)\1 with re.S, and _code_friendly_em_re.
EmY(t, i) ==
    {y \in (i + 2)..(Len(t) - 1) : ~IsSpace(At(t, y - 1)) /\ At(t, y) = At(t, i)}
EmAt(t, i, delims) ==
    IF /\ i + 1 < Len(t)
       /\ At(t, i) \in delims
       /\ ~IsSpace(At(t, i + 1))
       /\ EmY(t, i) # {}
    THEN [ok |-> TRUE, start |-> i, end |-> Min(EmY(t, i)) + 1,
          rep |-> Chars("<em>") \o Slice(t, i + 1, Min(EmY(t, i))) \o Chars("</em>")]
    ELSE NoMatch

EmphasisDelims(extra_set) == IF "code-friendly" \in extra_set THEN {"*"} ELSE {"*", "_"}

DoEm(t, delims) == re_sub(t, [i \in 0..Len(t) |-> EmAt(t, i, delims)])

\* <strong> must go first.
_do_italics_and_bold(t, extra_set) ==
    DoEm(re_sub(t, [i \in 0..Len(t) |-> StrongAt(t, i, EmphasisDelims(extra_set))]),
         EmphasisDelims(extra_set))

\* re.sub(r" {2,}\n", " <br%s\n" % self.empty_element_suffix, text)
HardBreakAt(t, i) ==
    IF /\ i < Len(t) /\ At(t, i) = " "
       /\ RunEnd(t, i, IsSp) >= i + 2
       /\ RunEnd(t, i, IsSp) < Len(t) /\ At(t, RunEnd(t, i, IsSp)) = "\n"
    THEN [ok |-> TRUE, start |-> i, end |-> RunEnd(t, i, IsSp) + 1,
          rep |-> Chars(" <br") \o empty_element_suffix \o Chars("\n")]
    ELSE NoMatch

DoHardBreaks(t) == re_sub(t, [i \in 0..Len(t) |-> HardBreakAt(t, i)])

\* self.link_patterns is None in every configuration modelled: iterating it
\* raises TypeError.
_do_link_patterns(r) == [r EXCEPT !.err = "TypeError"]

\* The value of a one-element set: passes are composed through it so that
\* each pass receives the finished value of the pass before it.
Only(S) == CHOOSE x \in S : TRUE

\* The last three passes of _run_span_gamut.
SpanTail(t, extra_set) ==
    Only({DoHardBreaks(t3) : t3 \in
         {_do_italics_and_bold(t2, extra_set) : t2 \in
         {_encode_amps_and_angles(t1) : t1 \in {t}}}})

\* What _run_span_gamut does after _do_links; r holds the text and
\* self.footnote_ids as _do_links left them.
SpanAfterLinks(r, e) ==
    Only({IF "link-patterns" \in e.extras
          THEN _do_link_patterns([text |-> t1, footnote_ids |-> r.footnote_ids, err |-> "none"])
          ELSE [text |-> SpanTail(t1, e.extras), footnote_ids |-> r.footnote_ids, err |-> "none"]
          : t1 \in {_do_auto_links(r.text, e.rnd)}})

\* _run_span_gamut(text): the text returned, self.footnote_ids after the
\* call, and the exception raised, if any.
_run_span_gamut(t, ids, e) ==
    Only({SpanAfterLinks(r, e) : r \in
         {_do_links(t2, ids, e) : t2 \in
         {_escape_special_chars(t1, e.safe_mode) : t1 \in
         {_do_code_spans(t0) : t0 \in {t}}}}})

----------------------------------------------------------------------------
(* convert: the passes before the block gamut *)

tab_width == 4

Spaces(n) == IF n = 0 THEN <<>> ELSE [k \in 1..n |-> " "]
NotSpace(c) == ~IsSpace(c)

\* len(s): a digest element stands for 32 hex digits.
StrLen(s) == Len(s) + 31 * Cardinality({k \in 1..Len(s) : IsDigest(s[k])})

\* re.sub("\r\n|\r", "\n", text)
LineEndingAt(t, i) ==
    IF i < Len(t) /\ At(t, i) = "\r"
    THEN [ok |-> TRUE, start |-> i,
          end |-> IF i + 1 < Len(t) /\ At(t, i + 1) = "\n" THEN i + 2 ELSE i + 1,
          rep |-> <<"\n">>]
    ELSE NoMatch

StandardizeLineEndings(t) == re_sub(t, [i \in 0..Len(t) |-> LineEndingAt(t, i)])

\* A _detab_sub that pads every tab to the full width
_detab_sub_full_width(g1) == g1 \o Spaces(tab_width)

\* _detab_re: (.*?)\t with re.M
_detab_sub(g1) == g1 \o Spaces(tab_width - (StrLen(g1) % tab_width))

_detab_re(t, i) ==
    IF Find(t, "\t", i) >= 0 /\ Find(t, "\t", i) < LineEnd(t, i)
    THEN [ok |-> TRUE, start |-> i, end |-> Find(t, "\t", i) + 1,
          rep |-> _detab_sub(Slice(t, i, Find(t, "\t", i)))]
    ELSE NoMatch

_detab(t) ==
    IF Find(t, "\t", 0) < 0 THEN t
    ELSE re_sub(t, [i \in 0..Len(t) |-> _detab_re(t, i)])

\* _ws_only_line_re: ^[ \t]+$ with re.M
_ws_only_line_re(t, i) ==
    IF /\ i < Len(t) /\ IsLineStart(t, i) /\ IsBlank(At(t, i))
       /\ IsLineEnd(t, RunEnd(t, i, IsBlank))
    THEN [ok |-> TRUE, start |-> i, end |-> RunEnd(t, i, IsBlank), rep |-> <<>>]
    ELSE NoMatch

StripWsOnlyLines(t) == re_sub(t, [i \in 0..Len(t) |-> _ws_only_line_re(t, i)])

----------------------------------------------------------------------------
(* _hash_html_blocks *)

_block_tags_b ==
    {Chars("p"), Chars("div"), Chars("h1"), Chars("h2"), Chars("h3"), Chars("h4"),
     Chars("h5"), Chars("h6"), Chars("blockquote"), Chars("pre"), Chars("table"),
     Chars("dl"), Chars("ol"), Chars("ul"), Chars("script"), Chars("noscript"),
     Chars("form"), Chars("fieldset"), Chars("iframe"), Chars("math")}
_block_tags_a == _block_tags_b \cup {Chars("ins"), Chars("del")}

\* <(tag)\b at i: the tag is the whole word after the '<'.
TagNameAt(t, i) == Slice(t, i + 1, RunEnd(t, i + 1, IsWord))

\* </\2>[ \t]*(?=\n+|\Z) at x: where it ends, or -1.
CloseTagEnd(t, tag, x) ==
    IF /\ StartsWithAt(t, Chars("</") \o tag \o Chars(">"), x)
       /\ IsLineEnd(t, RunEnd(t, x + Len(tag) + 3, IsBlank))
    THEN RunEnd(t, x + Len(tag) + 3, IsBlank)
    ELSE -1

\* Where (.*\n)*? can stop, from p on: p itself and each later line start.
LinesFrom(t, p) == {p} \cup {j \in (p + 1)..Len(t) : At(t, j - 1) = "\n"}

\* '!' + md5(g1) + '!' between blank lines, and the block stored under the key
_hash_html_block_sub(g1) == Chars("\n\n") \o Md5Key(g1) \o Chars("\n\n")

BlockMatch(t, i, a, z) ==
    [ok |-> TRUE, start |-> i, end |-> z, g1 |-> Slice(t, a, z),
     rep |-> _hash_html_block_sub(Slice(t, a, z))]

StrictCloses(t, i) ==
    {c \in LinesFrom(t, i + 1 + Len(TagNameAt(t, i))) : CloseTagEnd(t, TagNameAt(t, i), c) >= 0}

_strict_tag_block_re(t, i) ==
    IF /\ i < Len(t) /\ IsLineStart(t, i) /\ At(t, i) = "<"
       /\ TagNameAt(t, i) \in _block_tags_a
       /\ StrictCloses(t, i) # {}
    THEN BlockMatch(t, i, i, CloseTagEnd(t, TagNameAt(t, i), Min(StrictCloses(t, i))))
    ELSE NoMatch

\* The closing tags .*</\2> can reach on the line that starts at c.
LiberalOnLine(t, tag, c) == {x \in c..LineEnd(t, c) : CloseTagEnd(t, tag, x) >= 0}

LiberalLines(t, i) ==
    {c \in LinesFrom(t, i + 1 + Len(TagNameAt(t, i))) : LiberalOnLine(t, TagNameAt(t, i), c) # {}}

_liberal_tag_block_re(t, i) ==
    IF /\ i < Len(t) /\ IsLineStart(t, i) /\ At(t, i) = "<"
       /\ TagNameAt(t, i) \in _block_tags_b
       /\ LiberalLines(t, i) # {}
    THEN BlockMatch(t, i, i, CloseTagEnd(t, TagNameAt(t, i),
                        Max(LiberalOnLine(t, TagNameAt(t, i), Min(LiberalLines(t, i))))))
    ELSE NoMatch

\* (?:(?<=\n\n)|\A\n?) at i: where the group that follows can start.
AfterBlankLine(t, i) == i >= 2 /\ At(t, i - 2) = "\n" /\ At(t, i - 1) = "\n"
BlockStarts(t, i) ==
    IF AfterBlankLine(t, i) THEN <<i>>
    ELSE IF i # 0 THEN <<>>
    ELSE IF Len(t) > 0 /\ At(t, 0) = "\n" THEN <<1, 0>>
    ELSE <<0>>

\* [ \t]*(?=\n{2,}|\Z) at p: where it ends, or -1.
BlockTail(t, p) ==
    IF \/ RunEnd(t, p, IsBlank) = Len(t)
       \/ StartsWithAt(t, Chars("\n\n"), RunEnd(t, p, IsBlank))
    THEN RunEnd(t, p, IsBlank)
    ELSE -1

\* [ ]{0,3}<(hr)\b([^<>])*?/?>[ \t]*(?=\n{2,}|\Z) at a: where it ends, or -1.
IsAngle(c) == c \in {"<", ">"}
NotAngle(c) == ~IsAngle(c)
HrTagEnd(t, a) ==
    LET b == RunEnd(t, a, IsSp)
        gt == RunEnd(t, b + 3, NotAngle)
    IN  IF /\ b - a <= tab_width - 1
           /\ StartsWithAt(t, Chars("<hr"), b)
           /\ (b + 3 = Len(t) \/ ~IsWord(At(t, b + 3)))
           /\ gt < Len(t) /\ At(t, gt) = ">"
        THEN BlockTail(t, gt + 1)
        ELSE -1

\* --.*?--\s* one or more times, then > and the tail, with re.S: from the
\* '--' at p, the end of the match the search finds, or -1.
RECURSIVE CommentRest(_, _)
CommentRest(t, p) ==
    LET After(q) == RunEnd(t, q + 2, IsSpace)
        Ok(q) == /\ StartsWithAt(t, Chars("--"), q)
                 /\ \/ CommentRest(t, After(q)) >= 0
                    \/ After(q) < Len(t) /\ At(t, After(q)) = ">"
                          /\ BlockTail(t, After(q) + 1) >= 0
        Q == {q \in (p + 2)..(Len(t) - 2) : Ok(q)}
    IN  IF ~StartsWithAt(t, Chars("--"), p) \/ Q = {} THEN -1
        ELSE IF CommentRest(t, After(Min(Q))) >= 0 THEN CommentRest(t, After(Min(Q)))
        ELSE BlockTail(t, After(Min(Q)) + 1)

CommentEnd(t, a) ==
    LET b == RunEnd(t, a, IsSp)
    IN  IF b - a <= tab_width - 1 /\ StartsWithAt(t, Chars("<!"), b)
        THEN CommentRest(t, b + 2)
        ELSE -1

\* The first start of BlockStarts(t, i) from which the group matches.
RECURSIVE FirstStart(_, _, _, _)
FirstStart(t, starts, k, kind) ==
    IF k > Len(starts) THEN -1
    ELSE IF (IF kind = "hr" THEN HrTagEnd(t, starts[k]) ELSE CommentEnd(t, starts[k])) >= 0
    THEN starts[k]
    ELSE FirstStart(t, starts, k + 1, kind)

\* The match at i whose group starts at a (-1: there is none).
HrTagAt(t, i, a) == IF a >= 0 THEN BlockMatch(t, i, a, HrTagEnd(t, a)) ELSE NoMatch
_hr_tag_re(t, i) == HrTagAt(t, i, FirstStart(t, BlockStarts(t, i), 1, "hr"))

CommentAt(t, i, a) == IF a >= 0 THEN BlockMatch(t, i, a, CommentEnd(t, a)) ELSE NoMatch
_html_comment_re(t, i) == CommentAt(t, i, FirstStart(t, BlockStarts(t, i), 1, "comment"))

\* self.html_blocks after the callback has run on each match of ms
RECURSIVE StoreBlocks(_, _, _)
StoreBlocks(blocks, ms, k) ==
    IF k > Len(ms) THEN blocks
    ELSE StoreBlocks((Md5Key(ms[k].g1) :> ms[k].g1) @@ blocks, ms, k + 1)

\* One regex.sub(self._hash_html_block_sub, text); r holds text and html_blocks.
HashSub(r, ms) ==
    [text |-> Joined(r.text, ms, 0), html_blocks |-> StoreBlocks(r.html_blocks, ms, 1)]

\* What each regex.sub of _hash_html_blocks visits.
StrictMatches(t) == Scan([i \in 0..Len(t) |-> _strict_tag_block_re(t, i)], Len(t), 0)
LiberalMatches(t) == Scan([i \in 0..Len(t) |-> _liberal_tag_block_re(t, i)], Len(t), 0)
HrMatches(t) == Scan([i \in 0..Len(t) |-> _hr_tag_re(t, i)], Len(t), 0)
CommentMatches(t) == Scan([i \in 0..Len(t) |-> _html_comment_re(t, i)], Len(t), 0)

HashHr(r) ==
    IF Contains(r.text, Chars("<hr")) THEN HashSub(r, HrMatches(r.text)) ELSE r
HashComment(r) ==
    IF Contains(r.text, Chars("<!--")) THEN HashSub(r, CommentMatches(r.text)) ELSE r

\* _hash_html_blocks(text): the text returned and self.html_blocks after it.
_hash_html_blocks(t, blocks) ==
    IF ~Contains(t, Chars("<")) THEN [text |-> t, html_blocks |-> blocks]
    ELSE Only({HashComment(r3) : r3 \in
              {HashHr(r2) : r2 \in
              {HashSub(r1, LiberalMatches(r1.text)) : r1 \in
              {HashSub(r0, StrictMatches(r0.text)) : r0 \in
              {[text |-> t, html_blocks |-> blocks]}}}}})

----------------------------------------------------------------------------
(* _strip_link_definitions *)

\* (?:\n+|\Z) at z: where it ends (z is a line end).
DefEnd(t, z) == RunEnd(t, z, IsNewline)

\* The optional title group at w, ['"(](.+?)['")][ \t]*, followed by
\* (?:\n+|\Z): the closing quotes the search can stop at.
TitleCloses(t, w) ==
    IF w < Len(t) /\ At(t, w) \in {"'", "\"", "("}
    THEN {q \in (w + 2)..(LineEnd(t, w) - 1) :
             At(t, q) \in {"'", "\"", ")"} /\ IsLineEnd(t, RunEnd(t, q + 1, IsBlank))}
    ELSE {}

\* What follows the url, from its end E on:
\*   [ \t]* \n? [ \t]* (title)? (?:\n+|\Z)
LinkDefTail(t, E) ==
    LET v0 == RunEnd(t, E, IsBlank)
        w  == IF v0 < Len(t) /\ At(t, v0) = "\n" THEN RunEnd(t, v0 + 1, IsBlank) ELSE v0
        Q  == IF w > E THEN TitleCloses(t, w) ELSE {}
    IN  IF Q # {}
        THEN [ok |-> TRUE, has_title |-> TRUE, title |-> Slice(t, w + 1, Min(Q)),
              end |-> DefEnd(t, RunEnd(t, Min(Q) + 1, IsBlank))]
        ELSE IF IsLineEnd(t, w)
        THEN [ok |-> TRUE, has_title |-> FALSE, title |-> <<>>, end |-> DefEnd(t, w)]
        ELSE IF w # v0
        THEN [ok |-> TRUE, has_title |-> FALSE, title |-> <<>>, end |-> DefEnd(t, v0)]
        ELSE [ok |-> FALSE, has_title |-> FALSE, title |-> <<>>, end |-> -1]

\* [ \t]* \n? [ \t]* from b on: where it ends.
SkipBlanksAndNewline(t, b) ==
    LET u0 == RunEnd(t, b, IsBlank)
    IN  IF u0 < Len(t) /\ At(t, u0) = "\n" THEN RunEnd(t, u0 + 1, IsBlank) ELSE u0

\* <?(\S+?)>? between u and E, and the tail r that follows E.
LinkDefUrl(t, u, E, r) ==
    LET s == IF At(t, u) = "<" /\ E > u + 1 THEN u + 1 ELSE u
        e == IF At(t, E - 1) = ">" /\ E - 1 > s THEN E - 1 ELSE E
    IN  IF u < Len(t) /\ NotSpace(At(t, u)) /\ r.ok
        THEN [ok |-> TRUE, url |-> Slice(t, s, e), has_title |-> r.has_title,
              title |-> r.title, end |-> r.end]
        ELSE [ok |-> FALSE, url |-> <<>>, has_title |-> FALSE, title |-> <<>>, end |-> -1]

LinkDefUrlAt(t, u, E) == LinkDefUrl(t, u, E, LinkDefTail(t, E))

LinkDefRestAt(t, u) == LinkDefUrlAt(t, u, RunEnd(t, u, NotSpace))

\* What follows ']:', from b on:  [ \t]* \n? [ \t]* <?(\S+?)>? and the tail.
LinkDefRest(t, b) == LinkDefRestAt(t, SkipBlanksAndNewline(t, b))

\* ^[ ]{0,3}\[(.+)\]: at i: the indices of the ']' that (.+) can stop before.
DefIdEnds(t, i, open) ==
    LET b == RunEnd(t, i, IsSp)
    IN  IF /\ i < Len(t) /\ IsLineStart(t, i)
           /\ b - i <= tab_width - 1
           /\ StartsWithAt(t, open, b)
        THEN {c \in (b + Len(open) + 1)..(LineEnd(t, i) - 2) :
                 At(t, c) = "]" /\ At(t, c + 1) = ":"}
        ELSE {}

LinkDefIdEnds(t, i) == {c \in DefIdEnds(t, i, Chars("[")) : LinkDefRest(t, c + 2).ok}

\* The match whose (.+) stops before the ']' at c, with the rest r.
LinkDefFields(i, id, r) ==
    [ok |-> TRUE, start |-> i, end |-> r.end, id |-> id, url |-> r.url,
     has_title |-> r.has_title, title |-> r.title, rep |-> <<>>]

\* (.+) is greedy: it stops before the last ']' of C.
LinkDefAt(t, i, C) ==
    IF C # {}
    THEN LinkDefFields(i, Slice(t, RunEnd(t, i, IsSp) + 1, Max(C)), LinkDefRest(t, Max(C) + 2))
    ELSE NoMatch

_link_def_re(t, i) == LinkDefAt(t, i, LinkDefIdEnds(t, i))

\* A key that keeps the letter case of the id.
LinkDefKey_keeps_case(id) == id

\* key = id.lower()    # Link IDs are case-insensitive
LinkDefKey(id) == lower(id)

\* _extract_link_def_sub on each match of ms: self.urls and self.titles
RECURSIVE ExtractLinkDefs(_, _, _)
ExtractLinkDefs(r, ms, k) ==
    IF k > Len(ms) THEN r
    ELSE ExtractLinkDefs(
             [urls |-> (LinkDefKey(ms[k].id) :> _encode_amps_and_angles(ms[k].url)) @@ r.urls,
              titles |-> IF ms[k].has_title
                         THEN (LinkDefKey(ms[k].id) :> Replace(ms[k].title, <<"\"">>, QUOT))
                                  @@ r.titles
                         ELSE r.titles],
             ms, k + 1)

LinkDefMatches(t) == Scan([i \in 0..Len(t) |-> _link_def_re(t, i)], Len(t), 0)

\* _strip_link_definitions(text): the text returned, self.urls, self.titles
StripLinkDefs(t, tables, ms) ==
    [text |-> Joined(t, ms, 0),
     urls |-> ExtractLinkDefs(tables, ms, 1).urls,
     titles |-> ExtractLinkDefs(tables, ms, 1).titles]

_strip_link_definitions(t, tables) ==
    Only({StripLinkDefs(t, tables, ms) : ms \in {LinkDefMatches(t)}})

----------------------------------------------------------------------------
(* _strip_footnote_definitions *)

\* (?=^[ ]{0,4}\S)|\Z at x
NonSpaceAtLineStart(t, x) ==
    \/ x = Len(t)
    \/ /\ IsLineStart(t, x)
       /\ RunEnd(t, x, IsSp) - x <= tab_width
       /\ RunEnd(t, x, IsSp) < Len(t)
       /\ NotSpace(At(t, RunEnd(t, x, IsSp)))

\* (?:[ ]{4}|\t).*\n+ at n: the line is indented and ends with a newline.
IndentedLineAt(t, n) ==
    /\ StartsWithAt(t, Spaces(tab_width), n) \/ StartsWithAt(t, <<"\t">>, n)
    /\ LineEnd(t, n) < Len(t)

\* The indented lines from n on, as many as leave the lookahead satisfied:
\* where they end, or -1.
RECURSIVE IndentedLines(_, _)
IndentedLines(t, n) ==
    IF IndentedLineAt(t, n) /\ IndentedLines(t, RunEnd(t, LineEnd(t, n), IsNewline)) >= 0
    THEN IndentedLines(t, RunEnd(t, LineEnd(t, n), IsNewline))
    ELSE IF NonSpaceAtLineStart(t, n) THEN n
    ELSE -1

\* (?:\s*.*\n+) with \s* stopping at s, and the indented lines after it
FootnoteBodyFrom(t, s) ==
    IF LineEnd(t, s) < Len(t) THEN IndentedLines(t, RunEnd(t, LineEnd(t, s), IsNewline))
    ELSE -1

\* The footnote text that starts at b: where it ends, or -1.
FootnoteBodyEnd(t, b) ==
    LET S == {s \in b..RunEnd(t, b, IsSpace) : FootnoteBodyFrom(t, s) >= 0}
    IN  IF S = {} THEN -1 ELSE FootnoteBodyFrom(t, Max(S))

FootnoteDefIdEnds(t, i) ==
    {c \in DefIdEnds(t, i, Chars("[^")) : FootnoteBodyEnd(t, RunEnd(t, c + 2, IsBlank)) >= 0}

footnote_def_re(t, i) ==
    IF FootnoteDefIdEnds(t, i) # {}
    THEN [ok |-> TRUE, start |-> i,
          end |-> FootnoteBodyEnd(t, RunEnd(t, Max(FootnoteDefIdEnds(t, i)) + 2, IsBlank)),
          id |-> Slice(t, RunEnd(t, i, IsSp) + 2, Max(FootnoteDefIdEnds(t, i))),
          body |-> Slice(t, RunEnd(t, Max(FootnoteDefIdEnds(t, i)) + 2, IsBlank),
                         FootnoteBodyEnd(t, RunEnd(t, Max(FootnoteDefIdEnds(t, i)) + 2, IsBlank))),
          rep |-> <<>>]
    ELSE NoMatch

\* _dedentlines.  The column reached after the blanks t[a:j], tabsize 8.
dedent_tabsize == 8
RECURSIVE Column(_, _, _)
Column(t, a, j) ==
    IF j = a THEN 0
    ELSE IF At(t, j - 1) = " " THEN Column(t, a, j - 1) + 1
    ELSE Column(t, a, j - 1) + dedent_tabsize - (Column(t, a, j - 1) % dedent_tabsize)

\* text.splitlines(1): the index where each line starts
LineStarts(t) == {a \in 0..(Len(t) - 1) : IsLineStart(t, a)}
NextLine(t, a) == IF LineEnd(t, a) < Len(t) THEN LineEnd(t, a) + 1 ELSE Len(t)

\* The indents the margin is the minimum of: all-whitespace lines are skipped.
Indents(t, skip_first_line) ==
    {Column(t, a, RunEnd(t, a, IsBlank)) :
        a \in {a \in LineStarts(t) : /\ ~(a = 0 /\ skip_first_line)
                                     /\ ~IsLineEnd(t, RunEnd(t, a, IsBlank))}}

\* The line that starts at a with the margin removed.
DedentLine(t, a, margin) ==
    LET r == RunEnd(t, a, IsBlank)
        J == {j \in (a + 1)..r : Column(t, a, j) >= margin}
    IN  IF J # {}
        THEN Spaces(Column(t, a, Min(J)) - margin) \o Slice(t, Min(J), NextLine(t, a))
        ELSE IF r < Len(t) THEN Slice(t, r, NextLine(t, a))
        ELSE Slice(t, Min({a + Column(t, a, r), Len(t)}), Len(t))

RECURSIVE DedentFrom(_, _, _, _)
DedentFrom(t, a, margin, skip_first_line) ==
    IF a >= Len(t) THEN <<>>
    ELSE (IF a = 0 /\ skip_first_line THEN Slice(t, a, NextLine(t, a))
          ELSE DedentLine(t, a, margin))
         \o DedentFrom(t, NextLine(t, a), margin, skip_first_line)

_dedent(t, skip_first_line) ==
    IF Indents(t, skip_first_line) = {} THEN t
    ELSE IF Min(Indents(t, skip_first_line)) = 0 THEN t
    ELSE DedentFrom(t, 0, Min(Indents(t, skip_first_line)), skip_first_line)

\* t.split(sep)
RECURSIVE SplitFrom(_, _, _)
SplitFrom(t, sep, from) ==
    IF FindStr(t, sep, from) < 0 THEN <<From(t, from)>>
    ELSE <<Slice(t, from, FindStr(t, sep, from))>>
             \o SplitFrom(t, sep, FindStr(t, sep, from) + Len(sep))

Split(t, sep) == SplitFrom(t, sep, 0)

\* The paragraphs _extract_footnote_def_sub stores for a definition.
FootnoteParas(body) ==
    Split(_encode_amps_and_angles(
              Strip(_dedent(body, ~StartsWithAt(body, <<"\n">>, 0)), IsSpace)),
          Chars("\n\n"))

RECURSIVE ExtractFootnoteDefs(_, _, _)
ExtractFootnoteDefs(notes, ms, k) ==
    IF k > Len(ms) THEN notes
    ELSE ExtractFootnoteDefs((NormId(ms[k].id) :> FootnoteParas(ms[k].body)) @@ notes, ms, k + 1)

FootnoteDefMatches(t) == Scan([i \in 0..Len(t) |-> footnote_def_re(t, i)], Len(t), 0)

StripFootnoteDefs(t, notes, ms) ==
    [text |-> Joined(t, ms, 0), footnotes |-> ExtractFootnoteDefs(notes, ms, 1)]

\* _strip_footnote_definitions(text): the text returned and self.footnotes
_strip_footnote_definitions(t, notes) ==
    Only({StripFootnoteDefs(t, notes, ms) : ms \in {FootnoteDefMatches(t)}})

----------------------------------------------------------------------------
(* The block-level regular expressions *)

IsHash(c) == c = "#"

\* _setext_h_re with every underline taken as a level 1 underline
_setext_h_re_level_one(t, i) ==
    LET u == LineEnd(t, i) + 1
        UnderlineEnd == RunEnd(t, Min({j \in u..Len(t) : j = Len(t) \/ At(t, j) # At(t, u)}),
                               IsBlank)
    IN  IF /\ i < Len(t) /\ IsLineStart(t, i)
           /\ LineEnd(t, i) > i
           /\ u < Len(t) /\ At(t, u) \in {"=", "-"}
           /\ UnderlineEnd < Len(t) /\ At(t, UnderlineEnd) = "\n"
        THEN [ok |-> TRUE, start |-> i, end |-> RunEnd(t, UnderlineEnd, IsNewline),
              n |-> 1,
              header |-> Slice(t, i, LineEnd(t, i))]
        ELSE NoMatch

\* _setext_h_re: ^(.+)[ \t]*\n(=+|-+)[ \t]*\n+ with re.M
_setext_h_re(t, i) ==
    LET u == LineEnd(t, i) + 1
        UnderlineEnd == RunEnd(t, Min({j \in u..Len(t) : j = Len(t) \/ At(t, j) # At(t, u)}),
                               IsBlank)
    IN  IF /\ i < Len(t) /\ IsLineStart(t, i)
           /\ LineEnd(t, i) > i
           /\ u < Len(t) /\ At(t, u) \in {"=", "-"}
           /\ UnderlineEnd < Len(t) /\ At(t, UnderlineEnd) = "\n"
        THEN [ok |-> TRUE, start |-> i, end |-> RunEnd(t, UnderlineEnd, IsNewline),
              n |-> IF At(t, u) = "=" THEN 1 ELSE 2,
              header |-> Slice(t, i, LineEnd(t, i))]
        ELSE NoMatch

\* _atx_h_re: ^(\#{1,6})[ \t]*(.+?)[ \t]*\#*\n+ with re.M.  The header text
\* starts at s after h hashes and ends at the first index from which blanks
\* and hashes reach the end of the line.
AtxHashes(t, i) ==
    {h \in 1..Min({RunEnd(t, i, IsHash) - i, 6}) : i + h < LineEnd(t, i)}
AtxTextStart(t, i, h) ==
    Max({s \in (i + h)..RunEnd(t, i + h, IsBlank) : s < LineEnd(t, i)})
AtxTextEnd(t, i, s) ==
    Min({x \in (s + 1)..LineEnd(t, i) :
            RunEnd(t, RunEnd(t, x, IsBlank), IsHash) = LineEnd(t, i)})

_atx_h_re(t, i) ==
    IF /\ i < Len(t) /\ IsLineStart(t, i) /\ At(t, i) = "#"
       /\ LineEnd(t, i) < Len(t)
       /\ AtxHashes(t, i) # {}
    THEN [ok |-> TRUE, start |-> i, end |-> RunEnd(t, LineEnd(t, i), IsNewline),
          n |-> Max(AtxHashes(t, i)),
          header |-> Slice(t, AtxTextStart(t, i, Max(AtxHashes(t, i))),
                           AtxTextEnd(t, i, AtxTextStart(t, i, Max(AtxHashes(t, i)))))]
    ELSE NoMatch

\* _hr_res: ^[ ]{0,2}([ ]?c[ ]?){3,}[ \t]*$ with re.M, for c one of * - _
IsHrLine(t, i, c) ==
    LET P == {k \in i..(LineEnd(t, i) - 1) : At(t, k) = c}
    IN  /\ Cardinality(P) >= 3
        /\ Min(P) - i <= 3
        /\ \A k \in i..Max(P) : At(t, k) \in {" ", c}
        /\ \A k \in Min(P)..(Max(P) - 2) :
               ~(At(t, k) = " " /\ At(t, k + 1) = " " /\ At(t, k + 2) = " ")
        /\ \A k \in (Max(P) + 1)..(LineEnd(t, i) - 1) : IsBlank(At(t, k))

_hr_re(t, i, c) ==
    IF i < Len(t) /\ IsLineStart(t, i) /\ IsHrLine(t, i, c)
    THEN [ok |-> TRUE, start |-> i, end |-> LineEnd(t, i),
          rep |-> Chars("\n<hr") \o empty_element_suffix \o Chars("\n")]
    ELSE NoMatch

DoHr(t, c) == re_sub(t, [i \in 0..Len(t) |-> _hr_re(t, i, c)])

\* for hr_re in self._hr_res: text = hr_re.sub(hr, text)
DoHorizontalRules(t) ==
    Only({DoHr(t2, "_") : t2 \in {DoHr(t1, "-") : t1 \in {DoHr(t, "*")}}})

\* _marker_any at p, (?:[*+-]|\d+[.]): where it ends, or -1.
_marker_ul_chars == {"*", "+", "-"}
IsDigit(c) == c \in Digits
MarkerEnd(t, p) ==
    IF p >= Len(t) THEN -1
    ELSE IF At(t, p) \in _marker_ul_chars THEN p + 1
    ELSE IF RunEnd(t, p, IsDigit) > p /\ RunEnd(t, p, IsDigit) < Len(t)
            /\ At(t, RunEnd(t, p, IsDigit)) = "."
    THEN RunEnd(t, p, IsDigit) + 1
    ELSE -1

\* _marker_any [ \t]+ at p
MarkerAt(t, p) ==
    MarkerEnd(t, p) >= 0 /\ MarkerEnd(t, p) < Len(t) /\ IsBlank(At(t, MarkerEnd(t, p)))

\* Group 4 of whole_list at x: \Z, or \n{2,} before a non-space that starts
\* no list item.  Where it ends, or -1.
ListEndAt(t, x) ==
    IF x = Len(t) THEN x
    ELSE IF /\ RunEnd(t, x, IsNewline) - x >= 2
            /\ RunEnd(t, x, IsNewline) < Len(t)
            /\ NotSpace(At(t, RunEnd(t, x, IsNewline)))
            /\ ~MarkerAt(t, RunEnd(t, x, IsNewline))
    THEN RunEnd(t, x, IsNewline)
    ELSE -1

\* whole_list at a: where the list ends, or -1.
WholeListEnd(t, a) ==
    LET b  == RunEnd(t, a, IsSp)
        B  == RunEnd(t, MarkerEnd(t, b), IsBlank)
    IN  IF ~(b - a <= tab_width - 1 /\ MarkerAt(t, b)) THEN -1
        ELSE IF B < Len(t)
        THEN ListEndAt(t, Min({x \in (B + 1)..Len(t) : ListEndAt(t, x) >= 0}))
        ELSE IF B - MarkerEnd(t, b) >= 2 THEN Len(t)
        ELSE -1

ListMatch(t, i, a) ==
    [ok |-> TRUE, start |-> i, end |-> WholeListEnd(t, a),
     lst |-> Slice(t, a, WholeListEnd(t, a)),
     lst_type |-> IF At(t, RunEnd(t, a, IsSp)) \in _marker_ul_chars THEN Chars("ul")
                  ELSE Chars("ol")]

\* sub_list_re: "^" + whole_list
sub_list_re(t, i) ==
    IF i < Len(t) /\ IsLineStart(t, i) /\ WholeListEnd(t, i) >= 0
    THEN ListMatch(t, i, i)
    ELSE NoMatch

\* list_re: (?:(?<=\n\n)|\A\n?) + whole_list
RECURSIVE FirstListStart(_, _, _)
FirstListStart(t, starts, k) ==
    IF k > Len(starts) THEN -1
    ELSE IF WholeListEnd(t, starts[k]) >= 0 THEN starts[k]
    ELSE FirstListStart(t, starts, k + 1)

\* list_re with the prefix of sub_list_re
list_re_any_line(t, i) ==
    IF i < Len(t) /\ IsLineStart(t, i) /\ WholeListEnd(t, i) >= 0
    THEN ListMatch(t, i, i)
    ELSE NoMatch

list_re(t, i) ==
    IF FirstListStart(t, BlockStarts(t, i), 1) >= 0
    THEN ListMatch(t, i, FirstListStart(t, BlockStarts(t, i), 1))
    ELSE NoMatch

\* _list_item_re.  The lookahead (?= \n* (\Z | \2 marker [ \t]+)) at x.
ItemFollows(t, leading_space, x) ==
    \/ RunEnd(t, x, IsNewline) = Len(t)
    \/ /\ StartsWithAt(t, leading_space, RunEnd(t, x, IsNewline))
       /\ MarkerAt(t, RunEnd(t, x, IsNewline) + Len(leading_space))

\* The newlines the item text can end with, for a text starting at s.
ItemEnds(t, leading_space, s) ==
    {x \in (s + 1)..(Len(t) - 1) : At(t, x) = "\n" /\ ItemFollows(t, leading_space, x)}

_list_item_re(t, i) ==
    LET a  == IF i < Len(t) /\ At(t, i) = "\n" THEN i + 1 ELSE i
        b  == RunEnd(t, a, IsBlank)
        g2 == Slice(t, a, b)
        B  == RunEnd(t, MarkerEnd(t, b), IsBlank)
        S  == {s \in (MarkerEnd(t, b) + 1)..B : ItemEnds(t, g2, s) # {}}
        x  == Min(ItemEnds(t, g2, Max(S)))
        eols == IF x + 1 < Len(t) /\ At(t, x + 1) = "\n" THEN 2 ELSE 1
    IN  IF /\ i < Len(t) /\ IsLineStart(t, a) /\ a <= Len(t)
           /\ MarkerAt(t, b)
           /\ S # {}
        THEN [ok |-> TRUE, start |-> i, end |-> x + eols,
              leading_line |-> a # i,
              item |-> Slice(t, Max(S), x + eols),
              eols |-> eols]
        ELSE NoMatch

\* _outdent_re: ^(\t|[ ]{1,4}) with re.M
_outdent_re(t, i) ==
    IF i < Len(t) /\ IsLineStart(t, i) /\ IsBlank(At(t, i))
    THEN [ok |-> TRUE, start |-> i,
          end |-> IF At(t, i) = "\t" THEN i + 1
                  ELSE Min({RunEnd(t, i, IsSp), i + tab_width}),
          rep |-> <<>>]
    ELSE NoMatch

_outdent(t) == re_sub(t, [i \in 0..Len(t) |-> _outdent_re(t, i)])

\* code_block_re: (?:\n\n|\A)((?:(?:[ ]{4}|\t).*\n+)+)((?=^[ ]{0,4}\S)|\Z)
CodeBlockStart(t, i) ==
    IF StartsWithAt(t, Chars("\n\n"), i) THEN i + 2
    ELSE IF i = 0 THEN 0
    ELSE -1

CodeBlockEnd(t, a) ==
    IF a >= 0 /\ IndentedLineAt(t, a)
    THEN IndentedLines(t, RunEnd(t, LineEnd(t, a), IsNewline))
    ELSE -1

code_block_re(t, i) ==
    IF CodeBlockEnd(t, CodeBlockStart(t, i)) >= 0
    THEN [ok |-> TRUE, start |-> i, end |-> CodeBlockEnd(t, CodeBlockStart(t, i)),
          codeblock |-> Slice(t, CodeBlockStart(t, i), CodeBlockEnd(t, CodeBlockStart(t, i)))]
    ELSE NoMatch

\* _block_quote_re.  ^[ \t]*>[ \t]?.+\n at p
QuoteLineAt(t, p) ==
    /\ RunEnd(t, p, IsBlank) < Len(t)
    /\ At(t, RunEnd(t, p, IsBlank)) = ">"
    /\ LineEnd(t, p) > RunEnd(t, p, IsBlank) + 1
    /\ LineEnd(t, p) < Len(t)

\* (.+\n)* from q on: where it ends
RECURSIVE NonEmptyLines(_, _)
NonEmptyLines(t, q) ==
    IF q < Len(t) /\ LineEnd(t, q) > q /\ LineEnd(t, q) < Len(t)
    THEN NonEmptyLines(t, LineEnd(t, q) + 1)
    ELSE q

\* The repeated group from the quote line at p on: where the match ends.
RECURSIVE QuoteEnd(_, _)
QuoteEnd(t, p) ==
    LET n == RunEnd(t, NonEmptyLines(t, LineEnd(t, p) + 1), IsNewline)
    IN  IF QuoteLineAt(t, n) THEN QuoteEnd(t, n) ELSE n

_block_quote_re(t, i) ==
    IF i < Len(t) /\ IsLineStart(t, i) /\ QuoteLineAt(t, i)
    THEN [ok |-> TRUE, start |-> i, end |-> QuoteEnd(t, i), bq |-> Slice(t, i, QuoteEnd(t, i))]
    ELSE NoMatch

\* _bq_one_level_re: ^[ \t]*>[ \t]? with re.M
_bq_one_level_re(t, i) ==
    LET g == RunEnd(t, i, IsBlank)
    IN  IF i < Len(t) /\ IsLineStart(t, i) /\ g < Len(t) /\ At(t, g) = ">"
        THEN [ok |-> TRUE, start |-> i,
              end |-> IF g + 1 < Len(t) /\ IsBlank(At(t, g + 1)) THEN g + 2 ELSE g + 1,
              rep |-> <<>>]
        ELSE NoMatch

\* re.sub('(?m)^', '  ', bq): the empty matches, one at each line start
RECURSIVE LineStartMatches(_, _)
LineStartMatches(t, from) ==
    IF from > Len(t) THEN <<>>
    ELSE IF IsLineStart(t, from)
    THEN <<[ok |-> TRUE, start |-> from, end |-> from, rep |-> Chars("  ")]>>
             \o LineStartMatches(t, from + 1)
    ELSE LineStartMatches(t, LineEnd(t, from) + 1)

IndentTwoSpaces(t) == Joined(t, LineStartMatches(t, 0), 0)

\* _dedent_two_spaces_sub: re.sub(r'(?m)^  ', '', match.group(1))
TwoSpacesAt(t, i) ==
    IF IsLineStart(t, i) /\ StartsWithAt(t, Chars("  "), i)
    THEN [ok |-> TRUE, start |-> i, end |-> i + 2, rep |-> <<>>]
    ELSE NoMatch

_dedent_two_spaces_sub(g1) == re_sub(g1, [i \in 0..Len(g1) |-> TwoSpacesAt(g1, i)])

\* _html_pre_block_re: (\s*<pre>.+?</pre>) with re.S
_html_pre_block_re(t, i) ==
    LET s == RunEnd(t, i, IsSpace)
        q == FindStr(t, Chars("</pre>"), s + 6)
    IN  IF i < Len(t) /\ StartsWithAt(t, Chars("<pre>"), s) /\ q >= 0
        THEN [ok |-> TRUE, start |-> i, end |-> q + 6,
              rep |-> _dedent_two_spaces_sub(Slice(t, i, q + 6))]
        ELSE NoMatch

\* re.split(r"\n{2,}", text): the separators
ParagraphBreakAt(t, i) ==
    IF StartsWithAt(t, Chars("\n\n"), i)
    THEN [ok |-> TRUE, start |-> i, end |-> RunEnd(t, i, IsNewline)]
    ELSE NoMatch

RECURSIVE Pieces(_, _, _)
Pieces(t, ms, pos) ==
    IF ms = <<>> THEN <<From(t, pos)>>
    ELSE <<Slice(t, pos, Head(ms).start)>> \o Pieces(t, Tail(ms), Head(ms).end)

SplitParagraphs(t) ==
    Pieces(t, Scan([i \in 0..Len(t) |-> ParagraphBreakAt(t, i)], Len(t), 0), 0)

----------------------------------------------------------------------------
(* _run_block_gamut.  A pass takes and returns the record st: the text it   *)
(* works on, the fields of self it may change (html_blocks, footnote_ids,   *)
(* list_level, _last_li_endswith_two_eols as last_li) and err, the          *)
(* exception raised so far ("none" when there is none).  e holds what the   *)
(* passes only read: extras, safe_mode, urls, titles, footnotes, the draws  *)
(* of random() and the lexer names Pygments knows.                         *)

\* self.<name>(arg): the methods of the instance that call one another.
RECURSIVE Method(_, _, _, _)

\* self._run_span_gamut(t) as a step on st
SpanStep(st, e, t) ==
    Only({[st EXCEPT !.text = r.text, !.footnote_ids = r.footnote_ids, !.err = r.err]
          : r \in {_run_span_gamut(t, st.footnote_ids, e)}})

Span(st, e, t) == Method("_run_span_gamut", st, e, t)

_run_block_gamut(st, e) == Method("_run_block_gamut", st, e, <<>>)

\* st with the text of r wrapped between two literals
Wrap(r, before, after) == [r EXCEPT !.text = before \o r.text \o after]

\* regex.sub(callback, t): the callback runs on the matches ms from the k-th
\* on, left to right; out is the text produced so far.
RECURSIVE SubEach(_, _, _, _, _, _, _)
SubEach(st, out, e, t, ms, k, kind) ==
    IF st.err # "none" THEN st
    ELSE IF k > Len(ms)
    THEN [st EXCEPT !.text = out \o From(t, IF k = 1 THEN 0 ELSE ms[k - 1].end)]
    ELSE Only({Only({SubEach(r, o, e, t, ms, k + 1, kind)
                     : o \in {out \o Slice(t, IF k = 1 THEN 0 ELSE ms[k - 1].end, ms[k].start)
                                  \o r.text}})
               : r \in {Method(kind, st, e, ms[k])}})

\* The matches of the regular expression a pass substitutes.
Matches(kind, t, level) ==
    Scan([i \in 0..Len(t) |->
             CASE kind = "setext" -> _setext_h_re(t, i)
               [] kind = "atx" -> _atx_h_re(t, i)
               [] kind = "list" -> IF level # 0 THEN sub_list_re(t, i) ELSE list_re(t, i)
               [] kind = "item" -> _list_item_re(t, i)
               [] kind = "code" -> code_block_re(t, i)
               [] kind = "quote" -> _block_quote_re(t, i)],
         Len(t), 0)

SubAll(st, e, kind) ==
    IF st.err # "none" THEN st
    ELSE Only({SubEach(st, <<>>, e, st.text, ms, 1, kind)
               : ms \in {Matches(kind, st.text, st.list_level)}})

Sub(st, e, kind) == Method("sub", st, e, kind)

\* A pass that changes the text only
TextPass(st, t) == IF st.err # "none" THEN st ELSE [st EXCEPT !.text = t]

\* "<h%d>%s</h%d>\n\n" % (n, self._run_span_gamut(header), n)
_h_sub(st, e, m) ==
    Wrap(Span(st, e, m.header),
         Chars("<h") \o DecStr(m.n) \o Chars(">"),
         Chars("</h") \o DecStr(m.n) \o Chars(">\n\n"))

_do_headers(st, e) == Only({Sub(r, e, "atx") : r \in {Sub(st, e, "setext")}})

_do_lists(st, e) == Sub(st, e, "list")

\* _process_list_items(list_str)
ListItemsEntry(st) ==
    [st EXCEPT !.list_level = @ + 1,
               !.last_li = FALSE,
               !.text = RStrip(st.text, IsNewline) \o <<"\n">>]

ListItemsExit(r) == IF r.err # "none" THEN r ELSE [r EXCEPT !.list_level = @ - 1]

_process_list_items(st, e) ==
    Only({ListItemsExit(r) : r \in {Sub(s1, e, "item") : s1 \in {ListItemsEntry(st)}}})

\* "<%s>\n%s</%s>\n" % (lst_type, result, lst_type)
_list_sub(st, e, m) ==
    Wrap(_process_list_items([st EXCEPT !.text = m.lst], e),
         Chars("<") \o m.lst_type \o Chars(">\n"),
         Chars("</") \o m.lst_type \o Chars(">\n"))

\* A test that leaves out the flag the item before has set.
ItemIsLoose_without_flag(st, m) == m.leading_line \/ Contains(m.item, Chars("\n\n"))

\* A test that also takes an item that holds a nested list marker.
ItemIsLoose_or_nested(st, m) ==
    \/ m.leading_line \/ Contains(m.item, Chars("\n\n")) \/ st.last_li
    \/ Contains(m.item, Chars("\n    * ")) \/ Contains(m.item, Chars("\n    1. "))

\* if leading_line or "\n\n" in item or self._last_li_endswith_two_eols
ItemIsLoose(st, m) == m.leading_line \/ Contains(m.item, Chars("\n\n")) \/ st.last_li

\* if item.endswith('\n'): item = item[:-1]
DropLastNewline(t) ==
    IF t # <<>> /\ t[Len(t)] = "\n" THEN Slice(t, 0, Len(t) - 1) ELSE t

\* Recursion for sub-lists, then the span gamut
TightItem(st, e, item) ==
    Only({IF r.err # "none" THEN r ELSE Span(r, e, DropLastNewline(r.text))
          : r \in {_do_lists([st EXCEPT !.text = item], e)}})

_list_item_sub(st, e, m) ==
    Only({IF r.err # "none" THEN r
          ELSE [r EXCEPT !.last_li = (m.eols = 2),
                         !.text = Chars("<li>") \o r.text \o Chars("</li>\n")]
          : r \in {IF ItemIsLoose(st, m)
                   THEN _run_block_gamut([st EXCEPT !.text = _outdent(m.item)], e)
                   ELSE TightItem(st, e, _outdent(m.item))}})

\* pygments.highlight(codeblock, lexer, formatter) with HtmlCodeFormatter:
\* the markup around the highlighted code, which is one element here.
_color_with_pygments(codeblock) ==
    Chars("<div class=\"codehilite\"><pre><code>")
        \o <<"pygments:" \o Spell(codeblock, 1, Len(codeblock))>>
        \o Chars("\n</code></pre></div>\n")

\* "\n\n<pre><code>%s\n</code></pre>\n\n" % self._encode_code(codeblock)
PreCode(codeblock) ==
    Chars("\n\n<pre><code>") \o _encode_code(codeblock) \o Chars("\n</code></pre>\n\n")

\* A lexer declaration that raises for a name that is not resolved.
LexerDeclaration_unknown_raises(st, e, codeblock) ==
    LET nl == Find(codeblock, "\n", 0)
    IN  IF nl < 0 THEN [st EXCEPT !.err = "ValueError"]
        ELSE IF Strip(Slice(codeblock, 3, nl), IsSpace) \in e.lexers
        THEN [st EXCEPT !.text = Chars("\n\n")
                 \o _color_with_pygments(LStrip(From(codeblock, nl + 1), IsNewline))
                 \o Chars("\n\n")]
        ELSE [st EXCEPT !.err = "ClassNotFound"]

\* lexer_name, rest = codeblock.split('\n', 1): ValueError when the code
\* block is one line.
LexerDeclaration(st, e, codeblock) ==
    LET nl == Find(codeblock, "\n", 0)
    IN  IF nl < 0 THEN [st EXCEPT !.err = "ValueError"]
        ELSE IF Strip(Slice(codeblock, 3, nl), IsSpace) \in e.lexers
        THEN [st EXCEPT !.text = Chars("\n\n")
                 \o _color_with_pygments(LStrip(From(codeblock, nl + 1), IsNewline))
                 \o Chars("\n\n")]
        ELSE [st EXCEPT !.text = PreCode(LStrip(From(codeblock, nl + 1), IsNewline))]

\* outdent, detab, trim leading newlines and trailing whitespace
TrimCodeBlock(codeblock) ==
    Only({RStrip(LStrip(t2, IsNewline), IsSpace) : t2 \in
         {_detab(t1) : t1 \in {_outdent(codeblock)}}})

_code_block_sub(st, e, m) ==
    Only({IF "code-color" \in e.extras /\ StartsWithAt(codeblock, Chars(":::"), 0)
          THEN LexerDeclaration(st, e, codeblock)
          ELSE [st EXCEPT !.text = PreCode(codeblock)]
          : codeblock \in {TrimCodeBlock(m.codeblock)}})

_do_code_blocks(st, e) == Sub(st, e, "code")

\* trim one level of quoting, trim whitespace-only lines
UnquoteOneLevel(bq) ==
    Only({StripWsOnlyLines(t1) : t1 \in {re_sub(bq, [i \in 0..Len(bq) |-> _bq_one_level_re(bq, i)])}})

\* indent by two spaces, except the content of <pre> blocks
IndentQuote(t) ==
    Only({re_sub(t1, [i \in 0..Len(t1) |-> _html_pre_block_re(t1, i)])
          : t1 \in {IndentTwoSpaces(t)}})

_block_quote_sub(st, e, m) ==
    Only({IF r.err # "none" THEN r
          ELSE [r EXCEPT !.text = Chars("<blockquote>\n") \o IndentQuote(r.text)
                                      \o Chars("\n</blockquote>\n\n")]
          : r \in {_run_block_gamut([st EXCEPT !.text = UnquoteOneLevel(m.bq)], e)}})

_do_block_quotes(st, e) ==
    IF st.err # "none" \/ Find(st.text, ">", 0) < 0 THEN st ELSE Sub(st, e, "quote")

\* self._hash_html_blocks(text) as a step on st
HashBlocks(st) ==
    IF st.err # "none" THEN st
    ELSE Only({[st EXCEPT !.text = r.text, !.html_blocks = r.html_blocks]
               : r \in {_hash_html_blocks(st.text, st.html_blocks)}})

\* "<p>" + graf.lstrip(" \t") + "</p>"
Paragraph(r) == [r EXCEPT !.text = Chars("<p>") \o LStrip(r.text, IsBlank) \o Chars("</p>")]

\* One graf of _form_paragraphs: an html block is unhashed, or removed in
\* safe mode; anything else goes through the span gamut into a <p>.
FormGraf(st, e, graf) ==
    IF graf \in DOMAIN st.html_blocks
    THEN [st EXCEPT !.text = IF e.safe_mode THEN HTML_REMOVED_TEXT ELSE st.html_blocks[graf]]
    ELSE Only({IF r.err # "none" THEN r ELSE Paragraph(r) : r \in {Span(st, e, graf)}})

\* The loop over the grafs from the k-th on, and "\n\n".join(grafs)
RECURSIVE FormGrafs(_, _, _, _, _)
FormGrafs(st, out, e, grafs, k) ==
    IF st.err # "none" THEN st
    ELSE IF k > Len(grafs) THEN [st EXCEPT !.text = out]
    ELSE Only({Only({FormGrafs(r, o, e, grafs, k + 1)
                     : o \in {IF k = 1 THEN r.text ELSE out \o Chars("\n\n") \o r.text}})
               : r \in {FormGraf(st, e, grafs[k])}})

_form_paragraphs(st, e) ==
    IF st.err # "none" THEN st
    ELSE Only({FormGrafs(st, <<>>, e, grafs, 1)
               : grafs \in {SplitParagraphs(Strip(st.text, IsNewline))}})

HorizontalRules(st) ==
    IF st.err # "none" THEN st ELSE [st EXCEPT !.text = DoHorizontalRules(st.text)]

RunBlockGamut(st, e) ==
    Only({_form_paragraphs(s6, e) : s6 \in
         {HashBlocks(s5) : s5 \in
         {_do_block_quotes(s4, e) : s4 \in
         {_do_code_blocks(s3, e) : s3 \in
         {_do_lists(s2, e) : s2 \in
         {HorizontalRules(s1) : s1 \in
         {_do_headers(st, e)}}}}}}})

Method(name, st, e, arg) ==
    CASE name = "_run_block_gamut" -> RunBlockGamut(st, e)
      [] name = "_run_span_gamut" -> SpanStep(st, e, arg)
      [] name = "sub" -> SubAll(st, e, arg)
      [] name \in {"setext", "atx"} -> _h_sub(st, e, arg)
      [] name = "list" -> _list_sub(st, e, arg)
      [] name = "item" -> _list_item_sub(st, e, arg)
      [] name = "code" -> _code_block_sub(st, e, arg)
      [] name = "quote" -> _block_quote_sub(st, e, arg)

----------------------------------------------------------------------------
(* _add_footnotes *)

\* The lines of one <li>: the paragraphs of the note, the last one with the
\* back link.  i is the index of the id in self.footnote_ids, from 0.
RECURSIVE FootnoteParaLines(_, _, _, _)
FootnoteParaLines(paras, j, id, i) ==
    IF j > Len(paras) THEN <<>>
    ELSE IF j = Len(paras)
    THEN <<Chars("<p>") \o paras[j] \o Chars("&nbsp;<a href=\"#fnref-") \o id
             \o Chars("\" class=\"footnoteBackLink\" title=\"Jump back to footnote ")
             \o DecStr(i + 1) \o Chars(" in the text.\">&#8617;</a></p>")>>
    ELSE <<Chars("<p>") \o paras[j] \o Chars("</p>")>>
             \o FootnoteParaLines(paras, j + 1, id, i)

RECURSIVE FooterItems(_, _, _)
FooterItems(notes, ids, k) ==
    IF k > Len(ids) THEN <<>>
    ELSE (IF k # 1 THEN << <<>> >> ELSE <<>>)
         \o <<Chars("<li id=\"fn-") \o ids[k] \o Chars("\">")>>
         \o FootnoteParaLines(notes[ids[k]], 1, ids[k], k - 1)
         \o <<Chars("</li>")>>
         \o FooterItems(notes, ids, k + 1)

\* '\n'.join(lines)
RECURSIVE JoinLines(_, _)
JoinLines(lines, k) ==
    IF k > Len(lines) THEN <<>>
    ELSE IF k = Len(lines) THEN lines[k]
    ELSE lines[k] \o <<"\n">> \o JoinLines(lines, k + 1)

Footer(notes, ids) ==
    <<Chars("<div class=\"footnotes\">"), Chars("<hr") \o empty_element_suffix, Chars("<ol>")>>
        \o FooterItems(notes, ids, 1)
        \o <<Chars("</ol>"), Chars("</div>")>>

_add_footnotes(t, notes, ids) ==
    IF DOMAIN notes # {}
    THEN t \o Chars("\n\n") \o JoinLines(Footer(notes, ids), 1)
    ELSE t

----------------------------------------------------------------------------
(* convert.  c is the instance with the call that runs on it: the fields    *)
(* of self, the local text, pc (the statement of convert to run next),      *)
(* the string returned and the exception raised.  cfg is what __init__      *)
(* got (extras, safe_mode) and the lexer names Pygments knows.              *)

\* random() is drawn for email auto-links only: once for each character of
\* "mailto:" + addr.  A sequence of draws names the range each r falls in
\* ("raw": r > 0.9, "hex": r < 0.45, "dec": the rest); DrawSeqs are the
\* sequences a call may draw, Draws the one of a reference run.
Draws == <<"dec">>
DrawSeqs == {<<"dec">>, <<"hex">>, <<"raw", "hex">>}
\* The draws that can show in the conversion of t: no address without '@'.
DrawsFor(t) == IF Contains(t, <<"@">>) THEN DrawSeqs ELSE {Draws}

\* What the passes read of self.
Env(c, cfg) ==
    [extras |-> cfg.extras, safe_mode |-> cfg.safe_mode, lexers |-> cfg.lexers,
     urls |-> c.urls, titles |-> c.titles, footnotes |-> c.footnotes, rnd |-> cfg.rnd]

\* What the block gamut works on.
BlockState(c) ==
    [text |-> c.text, html_blocks |-> c.html_blocks, footnote_ids |-> c.footnote_ids,
     list_level |-> c.list_level, last_li |-> c.last_li, err |-> "none"]

\* A reset that leaves the link table alone.
reset_keeps_urls(c, cfg) ==
    IF "footnotes" \in cfg.extras
    THEN [c EXCEPT !.html_blocks = <<>>, !.list_level = 0,
                   !.footnotes = <<>>, !.footnote_ids = <<>>]
    ELSE [c EXCEPT !.html_blocks = <<>>, !.list_level = 0]

reset(c, cfg) ==
    IF "footnotes" \in cfg.extras
    THEN [c EXCEPT !.urls = <<>>, !.titles = <<>>, !.html_blocks = <<>>, !.list_level = 0,
                   !.footnotes = <<>>, !.footnote_ids = <<>>]
    ELSE [c EXCEPT !.urls = <<>>, !.titles = <<>>, !.html_blocks = <<>>, !.list_level = 0]

\* self.reset()
ResetStep(c, cfg) == [reset(c, cfg) EXCEPT !.pc = "standardize"]

\* Standardize line endings; make sure the text ends with a couple of newlines.
StandardizeStep(c) ==
    [c EXCEPT !.text = StandardizeLineEndings(c.text) \o Chars("\n\n"), !.pc = "detab"]

DetabStep(c) == [c EXCEPT !.text = _detab(c.text), !.pc = "ws_only"]

WsOnlyStep(c) == [c EXCEPT !.text = StripWsOnlyLines(c.text), !.pc = "hash_html"]

HashHtmlStep(c, cfg) ==
    Only({[c EXCEPT !.text = r.text, !.html_blocks = r.html_blocks,
                    !.pc = IF "footnotes" \in cfg.extras THEN "strip_footnotes"
                           ELSE "strip_links"]
          : r \in {_hash_html_blocks(c.text, c.html_blocks)}})

StripFootnotesStep(c) ==
    Only({[c EXCEPT !.text = r.text, !.footnotes = r.footnotes, !.pc = "strip_links"]
          : r \in {_strip_footnote_definitions(c.text, c.footnotes)}})

StripLinksStep(c) ==
    Only({[c EXCEPT !.text = r.text, !.urls = r.urls, !.titles = r.titles,
                    !.pc = "block_gamut"]
          : r \in {_strip_link_definitions(c.text, [urls |-> c.urls, titles |-> c.titles])}})

BlockGamutStep(c, cfg) ==
    Only({[c EXCEPT !.text = IF r.err = "none" THEN r.text ELSE c.text,
                    !.html_blocks = r.html_blocks,
                    !.footnote_ids = r.footnote_ids,
                    !.list_level = r.list_level,
                    !.last_li = r.last_li,
                    !.raised = r.err,
                    !.pc = IF r.err = "none" THEN "unescape" ELSE "raised"]
          : r \in {_run_block_gamut(BlockState(c), Env(c, cfg))}})

UnescapeStep(c, cfg) ==
    [c EXCEPT !.text = _unescape_special_chars(c.text),
              !.pc = IF "footnotes" \in cfg.extras THEN "add_footnotes" ELSE "return"]

AddFootnotesStep(c) ==
    [c EXCEPT !.text = _add_footnotes(c.text, c.footnotes, c.footnote_ids), !.pc = "return"]

\* return text + "\n"
ReturnStep(c) == [c EXCEPT !.output = c.text \o <<"\n">>, !.pc = "done"]

\* The instance __init__ leaves, and the entry of convert(doc) on c.
NewInstance ==
    [urls |-> <<>>, titles |-> <<>>, html_blocks |-> <<>>, list_level |-> 0,
     last_li |-> FALSE, footnotes |-> <<>>, footnote_ids |-> <<>>,
     text |-> <<>>, output |-> <<>>, raised |-> "none", pc |-> "idle"]

Enter(c, doc) == [c EXCEPT !.text = doc, !.output = <<>>, !.raised = "none", !.pc = "reset"]

\* One statement of convert.
Step(c, cfg) ==
    CASE c.pc = "reset" -> ResetStep(c, cfg)
      [] c.pc = "standardize" -> StandardizeStep(c)
      [] c.pc = "detab" -> DetabStep(c)
      [] c.pc = "ws_only" -> WsOnlyStep(c)
      [] c.pc = "hash_html" -> HashHtmlStep(c, cfg)
      [] c.pc = "strip_footnotes" -> StripFootnotesStep(c)
      [] c.pc = "strip_links" -> StripLinksStep(c)
      [] c.pc = "block_gamut" -> BlockGamutStep(c, cfg)
      [] c.pc = "unescape" -> UnescapeStep(c, cfg)
      [] c.pc = "add_footnotes" -> AddFootnotesStep(c)
      [] c.pc = "return" -> ReturnStep(c)

RECURSIVE Run(_, _)
Run(c, cfg) ==
    IF c.pc \in {"done", "raised"} THEN c
    ELSE Only({Run(n, cfg) : n \in {Step(c, cfg)}})

\* Markdown(...).convert(doc) on a newly constructed instance
convert(doc, cfg) == Run(Enter(NewInstance, doc), cfg)

----------------------------------------------------------------------------
(* The scanner as a state machine: one _do_links call on a span text, one   *)
(* step per iteration of its loop.                                          *)

\* Bounds of the span texts.
MaxFrags == 4
MaxInner == 3

Fragments == {<<"[">>, <<"]">>, <<"F">>, <<"b">>, <<"(", "/", "u", ")">>, <<"!">>}

RECURSIVE Concat(_)
Concat(ss) == IF ss = <<>> THEN <<>> ELSE Head(ss) \o Concat(Tail(ss))

\* Every text of at most n fragments.
FragTexts(n) == {Concat(ss) : ss \in UNION {[1..k -> Fragments] : k \in 0..n}}

\* Brackets nest properly in t.
Balanced(t) ==
    LET Depth(p) == Cardinality({q \in 1..p : t[q] = "["})
                    - Cardinality({q \in 1..p : t[q] = "]"})
    IN  /\ \A p \in 1..Len(t) : Depth(p) >= 0
        /\ Depth(Len(t)) = 0

\* [X](/u) for a link text X with properly nested brackets, and no image.
NestedInner ==
    {x \in FragTexts(MaxInner) : Balanced(x) /\ Find(x, "[", 0) >= 0 /\ Find(x, "!", 0) < 0}
    \cup {<<"a", " ", "[", "b", "]", " ", "c">>}
NestedLink(x) == <<"[">> \o x \o <<"]", "(", "/", "u", ")">>
NestedTexts == {NestedLink(x) : x \in NestedInner}

\* Texts of the cases the documentation names.
NamedTexts == {
    \* [x [y](/b)](/a)
    <<"[", "x", " ", "[", "y", "]", "(", "/", "b", ")", "]", "(", "/", "a", ")">>,
    \* [![i](/i) [y](/b)](/a)
    <<"[", "!", "[", "i", "]", "(", "/", "i", ")", " ", "[", "y", "]", "(", "/", "b", ")",
      "]", "(", "/", "a", ")">>,
    \* [a][b](/u)
    <<"[", "a", "]", "[", "b", "]", "(", "/", "u", ")">>,
    \* [text][missing]
    <<"[", "t", "e", "x", "t", "]", "[", "m", "i", "s", "s", "i", "n", "g", "]">>,
    \* x[^F] y[^b] z[^f]
    <<"x", "[", "^", "F", "]", " ", "y", "[", "^", "b", "]", " ", "z", "[", "^", "f", "]">>,
    \* [t](/u "T") ![i][F]
    <<"[", "t", "]", "(", "/", "u", " ", "\"", "T", "\"", ")", " ", "!", "[", "i", "]",
      "[", "F", "]">>,
    \* [a [b]][g] ![i][g], the url and the title of g holding a '['
    <<"[", "a", " ", "[", "b", "]", "]", "[", "g", "]", " ", "!", "[", "i", "]", "[", "g", "]">>,
    \* [x [y](/b)] z
    <<"[", "x", " ", "[", "y", "]", "(", "/", "b", ")", "]", " ", "z">>
}

LinkTexts == FragTexts(MaxFrags) \cup NestedTexts \cup NamedTexts

\* The link table and the footnote store the scanned texts refer to.
LinkUrls == (<<"f">> :> <<"/", "r">>) @@ (<<"g">> :> <<"/", "[">>)
LinkTitles == (<<"f">> :> <<"T">>) @@ (<<"g">> :> <<"[", "T">>)
LinkFootnotes == (<<"f">> :> <<<<"n", "o", "t", "e">>>>)

LinksInit ==
    /\ input \in LinkTexts
    /\ text = input
    /\ curr_pos = 0
    /\ anchor_allowed_pos = 0
    /\ pc = "loop"
    /\ branch = "entry"
    /\ extras \in {{}, {"footnotes"}}
    /\ urls = LinkUrls
    /\ titles = LinkTitles
    /\ footnotes = LinkFootnotes
    /\ footnote_ids = <<>>
    /\ html_blocks = <<>>
    /\ list_level = 0
    /\ last_li = FALSE
    /\ safe_mode = FALSE
    /\ lexers = {}
    /\ output = <<>>
    /\ raised = "none"
    /\ converted = <<>>

\* What the loop reads of self.
Self == [extras |-> extras, urls |-> urls, titles |-> titles, footnotes |-> footnotes]

\* The local state of the running _do_links call.
Locals ==
    [text |-> text, curr_pos |-> curr_pos, anchor_allowed_pos |-> anchor_allowed_pos,
     footnote_ids |-> footnote_ids, pc |-> pc, branch |-> branch]

do_links_iter ==
    /\ pc = "loop"
    /\ \E n \in {DoLinksIter(Locals, Self)} :
           /\ text' = n.text
           /\ curr_pos' = n.curr_pos
           /\ anchor_allowed_pos' = n.anchor_allowed_pos
           /\ footnote_ids' = n.footnote_ids
           /\ pc' = n.pc
           /\ branch' = n.branch
    /\ UNCHANGED <<urls, titles, footnotes, extras, input, html_blocks, list_level,
                   last_li, safe_mode, lexers, output, raised, converted>>

LinksNext == do_links_iter

SpecLinks == LinksInit /\ [][LinksNext]_vars

\* The scanner from before the call: _do_links is called on a text, and the
\* call runs on (a while loop in one thread: the next iteration is taken as
\* long as there is one).
RunningInit ==
    /\ input = <<>>
    /\ text = <<>>
    /\ curr_pos = 0
    /\ anchor_allowed_pos = 0
    /\ pc = "idle"
    /\ branch = "entry"
    /\ extras \in {{}, {"footnotes"}}
    /\ urls = LinkUrls
    /\ titles = LinkTitles
    /\ footnotes = LinkFootnotes
    /\ footnote_ids = <<>>
    /\ html_blocks = <<>>
    /\ list_level = 0
    /\ last_li = FALSE
    /\ safe_mode = FALSE
    /\ lexers = {}
    /\ output = <<>>
    /\ raised = "none"
    /\ converted = <<>>

call_do_links ==
    /\ pc = "idle"
    /\ \E t \in LinkTexts : \E n \in {DoLinksEntry(t, footnote_ids)} :
           /\ input' = t
           /\ text' = n.text
           /\ curr_pos' = n.curr_pos
           /\ anchor_allowed_pos' = n.anchor_allowed_pos
           /\ pc' = n.pc
           /\ branch' = n.branch
    /\ UNCHANGED <<urls, titles, footnotes, footnote_ids, extras, html_blocks,
                   list_level, last_li, safe_mode, lexers, output, raised, converted>>

RunningNext == call_do_links \/ do_links_iter

\* Weak fairness of the loop iteration, WF_vars(do_links_iter), with
\* ENABLED <<do_links_iter>>_vars written as the state predicate it equals:
\* an iteration can be taken exactly when the call is in the loop, and every
\* iteration changes the cursor, the buffer or the position of the call.
LoopRuns == []<>(pc # "loop") \/ []<><<do_links_iter>>_vars

SpecLinksRunning == RunningInit /\ [][RunningNext]_vars /\ LoopRuns

----------------------------------------------------------------------------
(* Properties of the scanner *)

\* The indices where lit starts in t.
Occurrences(t, lit) == {i \in 0..(Len(t) - Len(lit)) : StartsWithAt(t, lit, i)}

\* An anchor opens at i and another one opens at j before the first is closed.
NestedAnchor(t) ==
    \E i, j \in Occurrences(t, A_HREF) :
        /\ i < j
        /\ \A k \in Occurrences(t, A_CLOSE) : ~(i < k /\ k < j)

\* C1: no anchor emitted by the scanner lies inside the text of another
\* emitted anchor, also when the link text holds an image that the scanner
\* replaces before it reaches the inner candidate.
C1_NoAnchorInsideAnchor == ~NestedAnchor(text)

\* C8: the iteration that finds a reference-style use whose lower-cased id is
\* not in the link table emits nothing, stops nothing, and leaves the buffer
\* exactly as it was.
C8_UndefinedReferenceUnchanged ==
    [][branch' = "ref_undefined" =>
          /\ text' = text
          /\ footnote_ids' = footnote_ids
          /\ anchor_allowed_pos' = anchor_allowed_pos
          /\ curr_pos' > curr_pos
          /\ pc' = "loop"]_vars

\* An iteration has met [text][missing] and the buffer still holds it.
C8_Witness ==
    /\ branch = "ref_undefined"
    /\ input = <<"[", "t", "e", "x", "t", "]", "[", "m", "i", "s", "s", "i", "n", "g", "]">>
    /\ text = input

\* C9: a link whose text holds balanced nested brackets, followed by an
\* inline tail, becomes exactly one anchor, and its content is the whole
\* bracketed text.
C9_BalancedBracketsOneAnchor ==
    (pc = "return" /\ input \in NestedTexts) =>
        text = A_HREF \o <<"/", "u", "\"", ">">> \o Slice(input, 1, Len(input) - 5) \o A_CLOSE

\* The scan of [a [b] c](/u) has returned with an anchor in the buffer.
C9_Witness ==
    /\ pc = "return"
    /\ input = NestedLink(<<"a", " ", "[", "b", "]", " ", "c">>)
    /\ Cardinality(Occurrences(text, A_HREF)) = 1
    /\ Contains(text, <<"a", " ", "[", "b", "]", " ", "c", "<", "/", "a", ">">>)

\* The number of '[' characters of t at or after index c.
BracketsFrom(t, c) == Cardinality({i \in c..(Len(t) - 1) : At(t, i) = "["})

\* C17: the loop of _do_links terminates.  An iteration after which the loop
\* goes on has moved the cursor forward or, for a resolved footnote
\* reference, has left the cursor and removed a '[' at or after it; every
\* such iteration leaves fewer '[' at or after the cursor than it found, so
\* there are at most as many of them as the buffer given to the scan has '['.
C17_ScanTerminates ==
    /\ [][(pc = "loop" /\ pc' = "loop") =>
              /\ \/ curr_pos' > curr_pos
                 \/ /\ branch' = "footnote_ref"
                    /\ curr_pos' = curr_pos
              /\ BracketsFrom(text', curr_pos') < BracketsFrom(text, curr_pos)]_vars
    /\ (pc = "loop") ~> (pc = "return")

\* The first footnote reference of x[^F] y[^b] z[^f] has been resolved and
\* the cursor has not moved.
C17_Witness ==
    /\ branch = "footnote_ref"
    /\ pc = "loop"
    /\ curr_pos = 0
    /\ footnote_ids = <<<<"f">>>>
    /\ input = <<"x", "[", "^", "F", "]", " ", "y", "[", "^", "b", "]", " ", "z", "[", "^", "f", "]">>

\* The '[' the coming iteration handles, and the end of the reference-style
\* tail that follows its closing bracket.
NextBracket == Find(text, "[", curr_pos)
NextRefTailEnd == _tail_of_reference_link_re(text, MatchingBracket(text, NextBracket) + 1).end

AB_Inline == <<"[", "a", "]", "[", "b", "]", "(", "/", "u", ")">>
XY_Inline == <<"[", "x", " ", "[", "y", "]", "(", "/", "b", ")", "]", " ", "z">>

UnresolvedStep ==
    /\ (branch' \in {"not_markup", "inline_blocked", "ref_blocked"}) =>
           (text' = text /\ curr_pos' = NextBracket + 1)
    /\ (branch' = "ref_undefined") =>
           (/\ text' = text
            /\ curr_pos' = NextRefTailEnd
            /\ curr_pos' > NextBracket + 1)

C18_WitnessMalformedTail ==
    /\ pc = "return"
    /\ input = XY_Inline
    /\ Contains(text, A_HREF \o <<"/", "b", "\"", ">", "y">> \o A_CLOSE)

\* The span the coming iteration matches: it starts at the '[', or at the '!'
\* before it, and ends where the inline or the reference-style tail ends.
NextLinkText == Slice(text, NextBracket + 1, MatchingBracket(text, NextBracket))
NextTailStart == MatchingBracket(text, NextBracket) + 1
NextSpanStart == IF IsImg(text, NextBracket) THEN NextBracket - 1 ELSE NextBracket
NextSpanEnd ==
    IF At(text, NextTailStart) = "("
    THEN _tail_of_inline_link_re(text, NextTailStart).end
    ELSE _tail_of_reference_link_re(text, NextTailStart).end

\* An iteration has replaced the span by an element: the text before the span
\* and the text after it are kept, and the element ends at index ElementEnd of
\* the new buffer.
ElementEnd == Len(text') - (Len(text) - NextSpanEnd)
Element == Slice(text', NextSpanStart, ElementEnd)
SpanReplaced ==
    /\ Slice(text', 0, NextSpanStart) = Slice(text, 0, NextSpanStart)
    /\ From(text', ElementEnd) = From(text, NextSpanEnd)

EndsWith(t, lit) == Len(t) >= Len(lit) /\ From(t, Len(t) - Len(lit)) = lit

AnchorBranches == {"inline_anchor", "ref_anchor"}
ImgBranches == {"inline_img", "ref_img"}

\* C19 as stated: an iteration that emits an anchor or an image replaces the
\* matched span by the element and sets both curr_pos and anchor_allowed_pos
\* to the index right after the inserted element.
C19_EmitAdvancesBothAsStated ==
    [][(branch' \in AnchorBranches \cup ImgBranches) =>
          (/\ SpanReplaced
           /\ curr_pos' = ElementEnd
           /\ anchor_allowed_pos' = ElementEnd)]_vars

EmitStep ==
    /\ (branch' \in AnchorBranches) =>
           (/\ SpanReplaced
            /\ StartsWithAt(Element, A_HREF, 0)
            /\ EndsWith(Element, <<">">> \o NextLinkText \o A_CLOSE)
            /\ anchor_allowed_pos' = ElementEnd
            /\ curr_pos' = ElementEnd - Len(NextLinkText \o A_CLOSE))
    /\ (branch' \in ImgBranches) =>
           (/\ SpanReplaced
            /\ StartsWithAt(Element, IMG_SRC, 0)
            /\ EndsWith(Element, empty_element_suffix)
            /\ curr_pos' = ElementEnd
            /\ anchor_allowed_pos' = anchor_allowed_pos)

\* C19, amended: an iteration that emits an element replaces the matched span
\* by the element.  For an image it sets curr_pos to the index right after the
\* element and leaves anchor_allowed_pos as it was; for an anchor it sets
\* anchor_allowed_pos to the index right after the element and curr_pos to the
\* index right after the opening tag, where the link text starts.
C19_EmitAdvances == [][EmitStep]_vars

\* The outer anchor of [x [y](/b)](/a) has been emitted: the cursor stands
\* after <a href="/a">, the watermark at the end of the element.
C19_Witness ==
    /\ branch = "inline_anchor"
    /\ input = <<"[", "x", " ", "[", "y", "]", "(", "/", "b", ")", "]", "(", "/", "a", ")">>
    /\ curr_pos = 13
    /\ anchor_allowed_pos = Len(text)
    /\ curr_pos < anchor_allowed_pos

\* The image of [t](/u "T") ![i][F] has been emitted at the end of the buffer:
\* the watermark still stands at the end of the anchor before it.
C19_WitnessImage ==
    /\ branch = "ref_img"
    /\ curr_pos = Len(text)
    /\ anchor_allowed_pos < curr_pos
    /\ EndsWith(text, empty_element_suffix)

----------------------------------------------------------------------------
(* The _do_links calls of one instance: every span-level pass calls         *)
(* _do_links on its own text, one call after the other.                     *)

\* The bound on the _do_links calls that follow one another.
MaxLinkCalls == 2

XY_Nested == <<"[", "x", " ", "[", "y", "]", "(", "/", "b", ")", "]", "(", "/", "a", ")">>

\* The texts the calls are made on.
CallTexts == NamedTexts \cup {XY_Nested, AB_Inline}

\* The first call has been entered; converted holds the texts of the calls
\* that have returned.
CallsInit ==
    /\ input \in CallTexts
    /\ text = input
    /\ curr_pos = 0
    /\ anchor_allowed_pos = 0
    /\ pc = "loop"
    /\ branch = "entry"
    /\ extras \in {{}, {"footnotes"}}
    /\ urls = LinkUrls
    /\ titles = LinkTitles
    /\ footnotes = LinkFootnotes
    /\ footnote_ids = <<>>
    /\ html_blocks = <<>>
    /\ list_level = 0
    /\ last_li = FALSE
    /\ safe_mode = FALSE
    /\ lexers = {}
    /\ output = <<>>
    /\ raised = "none"
    /\ converted = <<>>

\* The call has returned and the next span-level pass calls _do_links: its
\* locals are new, self.footnote_ids is what the calls before left.
call_do_links_again ==
    /\ pc = "return"
    /\ Len(converted) + 1 < MaxLinkCalls
    /\ converted' = Append(converted, input)
    /\ \E t \in CallTexts : \E n \in {DoLinksEntry(t, footnote_ids)} :
           /\ input' = t
           /\ text' = n.text
           /\ curr_pos' = n.curr_pos
           /\ anchor_allowed_pos' = n.anchor_allowed_pos
           /\ pc' = n.pc
           /\ branch' = n.branch
    /\ UNCHANGED <<urls, titles, footnotes, footnote_ids, extras, html_blocks,
                   list_level, last_li, safe_mode, lexers, output, raised>>

CallsNext == do_links_iter \/ call_do_links_again

SpecCalls == CallsInit /\ [][CallsNext]_vars

\* A step of a call leaves the watermark where it is or, emitting an anchor
\* that starts at or after it, moves it up to the end of the anchor; the step
\* that enters a call puts it at 0.
WatermarkStep ==
    /\ (branch' = "entry") => (anchor_allowed_pos' = 0)
    /\ (branch' # "entry") => (anchor_allowed_pos' >= anchor_allowed_pos)
    /\ (branch' # "entry" /\ anchor_allowed_pos' # anchor_allowed_pos) =>
           (branch' \in AnchorBranches)
    /\ (branch' \in AnchorBranches) =>
           (/\ NextBracket >= anchor_allowed_pos
            /\ anchor_allowed_pos' = ElementEnd
            /\ EndsWith(Slice(text', 0, anchor_allowed_pos'), A_CLOSE))

\* C30: within one _do_links call the watermark anchor_allowed_pos starts at 0
\* and never decreases.  It changes only when an anchor is emitted; an anchor
\* is emitted only if it starts at or after the watermark, which is then set
\* to the index right after the closing tag of the anchor.  The watermark is
\* local to the call: every call starts from 0 again.
C30_WatermarkMonotoneAndLocal ==
    /\ [](branch = "entry" => anchor_allowed_pos = 0)
    /\ [](anchor_allowed_pos >= 0)
    /\ [][WatermarkStep]_vars

\* A call on [x [y](/b)](/a) has returned with the watermark at the end of
\* its anchor, and the next call has emitted an anchor that starts at index 0.
C30_Witness ==
    /\ converted = <<XY_Nested>>
    /\ input = XY_Nested
    /\ branch = "inline_anchor"
    /\ StartsWithAt(text, A_HREF, 0)
    /\ anchor_allowed_pos = Len(text)

----------------------------------------------------------------------------
(* convert as a state machine: one step per statement of convert, on one    *)
(* instance whose configuration __init__ fixed.                             *)

\* The bound on the convert calls made on one instance.
MaxCalls == 2

\* A reference-style use, a blank line, the definition; or the other way round.
RefUses == {Chars("[text][id]"), Chars("[text][ID]"), Chars("[text][Id]")}
RefDefs == {Chars("[id]: /url \"Title\""), Chars("[ID]: /url \"Title\""),
            Chars("[iD]: /url \"Title\"")}
ImplicitUses == {Chars("[text][]"), Chars("[Text][]"), Chars("[TEXT][]")}
ImplicitDefs == {Chars("[text]: /url \"Title\""), Chars("[TEXT]: /url \"Title\"")}
Pairs(uses, defs) ==
    {u \o Chars("\n\n") \o d : u \in uses, d \in defs}
    \cup {d \o Chars("\n\n") \o u : u \in uses, d \in defs}
RefDocs == Pairs(RefUses, RefDefs) \cup Pairs(ImplicitUses, ImplicitDefs)

\* Two-item lists: the items follow one another, or a blank line parts them.
ListMarkers == {<<Chars("* "), Chars("* ")>>, <<Chars("- "), Chars("- ")>>,
                <<Chars("+ "), Chars("+ ")>>, <<Chars("1. "), Chars("2. ")>>}
ItemTexts == {<<Chars("a"), Chars("b")>>, <<Chars("one *x*"), Chars("two")>>}
TwoItems(mk, it, sep) == mk[1] \o it[1] \o sep \o mk[2] \o it[2]
TightDocs == {TwoItems(mk, it, Chars("\n")) : mk \in ListMarkers, it \in ItemTexts}
LooseDocs == {TwoItems(mk, it, Chars("\n\n")) : mk \in ListMarkers, it \in ItemTexts}

\* Documents with raw HTML, footnotes and code blocks in the places the
\* passes treat differently.
BlockDocs == {
    Chars(""),
    Chars("a\tb\r\nc  \nd"),
    Chars("H\n=\n\n## h ##\n\n* * *"),
    Chars("> q *e*\n> r\n\n    c <b>"),
    Chars("* a\n    * b\n* c"),
    Chars("\\*x\\* ") \o <<BackTick>> \o Chars("c*d") \o <<BackTick>> \o Chars(" AT&T"),
    Chars("[x](/u \"t\") ![i](/s)"),
    Chars("<div>x</div>"),
    Chars("hi <b>x</b>"),
    Chars("* <b>i</b>\n\n> <b>q</b>"),
    Chars("[a][f]\n\n[f]: /u \"<b>t</b>\""),
    Chars("t[^a]\n\n[^a]: x <b>y</b>"),
    Chars("x[^1]\n\n[^1]:\n\n<div>x</div>"),
    Chars("p[^a]\n\n# h[^b]\n\n[^a]: x\n[^b]: y"),
    Chars("p[^a]\n\nq[^b]\n\n[^b]: y\n[^a]: x"),
    Chars("p[^a] q[^b] r[^a]\n\n[^b]: y\n[^a]: x"),
    Chars("p[^a]\n\n* i[^b]\n\n[^a]: x\n[^b]: y"),
    Chars("    :::python\n    x = 1"),
    Chars("    :::nolang\n    x"),
    Chars("    :::python"),
    Chars("* a\n\n        :::python")
}

\* A single-line header text in the two notations: underlined by k characters
\* '=' (level 1) or '-' (level 2), and after n hashes and a space.
HeaderTexts == {Chars("T"), Chars("Title"), Chars("a *b*")}
PlainHeaderTexts == {Chars("T"), Chars("Title")}
HeaderLevels == {1, 2}
UnderlineLengths == {1, 3}
RECURSIVE Repeat(_, _)
Repeat(c, k) == IF k = 0 THEN <<>> ELSE <<c>> \o Repeat(c, k - 1)
Setext(T, n, k) == T \o <<"\n">> \o Repeat(IF n = 1 THEN "=" ELSE "-", k)
Atx(T, n) == Repeat("#", n) \o <<" ">> \o T
SetextDocs == {Setext(T, n, k) : T \in HeaderTexts, n \in HeaderLevels, k \in UnderlineLengths}
AtxDocs == {Atx(T, n) : T \in HeaderTexts, n \in HeaderLevels}
HeaderDocs == SetextDocs \cup AtxDocs

\* Documents with an email auto-link.
EmailDocs == {Chars("<a@b.c>"), Chars("m <u@h.io>\n\n* <a@b.c>")}

\* A line that begins with a list marker: in the middle of a paragraph, at
\* the start of the text, after a blank line, and inside a list item.
MidParagraphDocs == {Chars("I recommend\n8. Oops"), Chars("x\n* y"), Chars("a\n  + b\nc")}
TopListDocs == {Chars("8. Oops"), Chars("\n8. Oops"), Chars("x\n\n8. Oops")}
NestedCases == {
    [doc |-> Chars("* a\n  text\n  8. Oops"),
     html |-> Chars("<ul>\n<li>a\ntext\n<ol>\n<li>Oops</li>\n</ol></li>\n</ul>\n")],
    [doc |-> Chars("* a\n\n    b\n    8. Oops"),
     html |-> Chars("<ul>\n<li><p>a</p>\n\n<p>b</p>\n\n<ol>\n<li>Oops</li>\n</ol></li>\n</ul>\n")]
}
ListStartDocs == MidParagraphDocs \cup TopListDocs \cup {c.doc : c \in NestedCases}

\* A footnote definition that no reference uses, one that the body does not
\* refer to by its id, and one that is referenced.
FootnoteDocs == {
    Chars("x\n\n[^a]: n"),
    Chars("x[^b]\n\n[^a]: n"),
    Chars("x[^a]\n\n[^a]: n")
}

\* A use of [f] and two definitions of the id; url and title are those of
\* the last definition (title <<>>: it has none).
TwiceDefinedCases == {
    [doc |-> Chars("[a][f]\n\n[f]: /u \"T\"\n[f]: /v"), url |-> Chars("/v"), title |-> <<>>],
    [doc |-> Chars("[a][f]\n\n[f]: /u\n[f]: /v \"T\""), url |-> Chars("/v"), title |-> Chars("T")],
    [doc |-> Chars("[a][f]\n\n[f]: /u \"S\"\n[f]: /v \"T\""), url |-> Chars("/v"),
     title |-> Chars("T")],
    [doc |-> Chars("[f]: /u \"T\"\n\n[a][f]\n\n[F]: /v"), url |-> Chars("/v"), title |-> <<>>]
}
TwiceDefinedDocs == {k.doc : k \in TwiceDefinedCases}

\* A reference and a definition written with the same id text.
FootnoteIdTexts == {Chars("a"), Chars("a.b"), Chars("A"), Chars("Ab")}
SameIdDoc(id) == Chars("x[^") \o id \o Chars("]\n\n[^") \o id \o Chars("]: n")
SameIdDocs == {SameIdDoc(id) : id \in FootnoteIdTexts}

\* Lists with the items a and c; a may hold the nested item b.  For each of
\* a and c: blank, its text (with the newlines that end it) holds a blank
\* line; after_blank, a blank line precedes it; nested, it holds a list.
ItemCases == {
    [doc |-> Chars("* a\n    * b\n* c"),
     a |-> [blank |-> FALSE, after_blank |-> FALSE, nested |-> TRUE],
     c |-> [blank |-> FALSE, after_blank |-> FALSE, nested |-> FALSE]],
    [doc |-> Chars("* a\n\n    * b\n* c"),
     a |-> [blank |-> TRUE, after_blank |-> FALSE, nested |-> TRUE],
     c |-> [blank |-> FALSE, after_blank |-> FALSE, nested |-> FALSE]],
    [doc |-> Chars("* a\n    * b\n\n* c"),
     a |-> [blank |-> TRUE, after_blank |-> FALSE, nested |-> TRUE],
     c |-> [blank |-> FALSE, after_blank |-> TRUE, nested |-> FALSE]],
    [doc |-> Chars("* a\n* c"),
     a |-> [blank |-> FALSE, after_blank |-> FALSE, nested |-> FALSE],
     c |-> [blank |-> FALSE, after_blank |-> FALSE, nested |-> FALSE]],
    [doc |-> Chars("* a\n\n* c"),
     a |-> [blank |-> TRUE, after_blank |-> FALSE, nested |-> FALSE],
     c |-> [blank |-> FALSE, after_blank |-> TRUE, nested |-> FALSE]],
    [doc |-> Chars("1. a\n    1. b\n2. c"),
     a |-> [blank |-> FALSE, after_blank |-> FALSE, nested |-> TRUE],
     c |-> [blank |-> FALSE, after_blank |-> FALSE, nested |-> FALSE]]
}
ItemDocs == {k.doc : k \in ItemCases}

\* Paragraphs that hold characters of g_escape_table after a backslash, and
\* the text of each with the escaped characters as literals.
EscapeCases == {
    [doc |-> Chars("\\*x\\*"), literal |-> Chars("*x*")],
    [doc |-> Chars("\\_b\\_"), literal |-> Chars("_b_")],
    [doc |-> Chars("\\[a\\](/u)"), literal |-> Chars("[a](/u)")],
    [doc |-> <<"x", " ", "\\", BackTick, " ", "y">>,
     literal |-> <<"x", " ", BackTick, " ", "y">>],
    [doc |-> <<"\\", BackTick, "a", "\\", BackTick>>,
     literal |-> <<BackTick, "a", BackTick>>]
}
EscapeDocs == {k.doc : k \in EscapeCases}

Docs == BlockDocs \cup RefDocs \cup TightDocs \cup LooseDocs \cup HeaderDocs \cup EmailDocs
            \cup ListStartDocs \cup FootnoteDocs \cup ItemDocs \cup SameIdDocs
            \cup TwiceDefinedDocs \cup EscapeDocs

\* The documents of the calls that share an instance.
ReuseDocs == {
    Chars("[f]: /u \"t\""),
    Chars("[a][f]"),
    Chars("x[^a]\n\n[^a]: n"),
    Chars("y[^a] [^b]"),
    Chars("<div>x</div>"),
    Chars("* a\n\n* b\n\n"),
    Chars("* c\n* d"),
    Chars("* a\n\n        :::python")
}

\* What __init__ may get: any subset of these extras, safe_mode on or off.
Extras == {"code-friendly", "footnotes", "code-color"}
\* Pygments knows this lexer name and no other one of the documents.
KnownLexers == {Chars("python")}

ConvertInit ==
    /\ extras \in SUBSET Extras
    /\ safe_mode \in BOOLEAN
    /\ lexers = KnownLexers
    /\ urls = NewInstance.urls
    /\ titles = NewInstance.titles
    /\ html_blocks = NewInstance.html_blocks
    /\ list_level = NewInstance.list_level
    /\ last_li = NewInstance.last_li
    /\ footnotes = NewInstance.footnotes
    /\ footnote_ids = NewInstance.footnote_ids
    /\ text = NewInstance.text
    /\ output = NewInstance.output
    /\ raised = NewInstance.raised
    /\ pc = NewInstance.pc
    /\ input = <<>>
    /\ converted = <<>>
    /\ curr_pos = 0
    /\ anchor_allowed_pos = 0
    /\ branch = "entry"

\* The instance and the running call, as the statements of convert take them.
Instance ==
    [urls |-> urls, titles |-> titles, html_blocks |-> html_blocks,
     list_level |-> list_level, last_li |-> last_li, footnotes |-> footnotes,
     footnote_ids |-> footnote_ids, text |-> text, output |-> output,
     raised |-> raised, pc |-> pc]

\* The configuration of the instance; rnd holds the draws of the reference run.
Cfg == [extras |-> extras, safe_mode |-> safe_mode, lexers |-> lexers, rnd |-> Draws]

\* The statement leaves the instance and the call as n.
Becomes(n) ==
    /\ urls' = n.urls
    /\ titles' = n.titles
    /\ html_blocks' = n.html_blocks
    /\ list_level' = n.list_level
    /\ last_li' = n.last_li
    /\ footnotes' = n.footnotes
    /\ footnote_ids' = n.footnote_ids
    /\ text' = n.text
    /\ output' = n.output
    /\ raised' = n.raised
    /\ pc' = n.pc
    /\ UNCHANGED <<extras, safe_mode, lexers, input, converted, curr_pos,
                   anchor_allowed_pos, branch>>

\* convert(doc) is called on the instance, which has run fewer than n calls.
call_convert(D, n) ==
    /\ pc \in {"idle", "done", "raised"}
    /\ Len(converted) < n
    /\ \E doc \in D :
           /\ input' = doc
           /\ converted' = Append(converted, doc)
           /\ \E c \in {Enter(Instance, doc)} :
                  /\ text' = c.text
                  /\ output' = c.output
                  /\ raised' = c.raised
                  /\ pc' = c.pc
    /\ UNCHANGED <<urls, titles, html_blocks, list_level, last_li, footnotes,
                   footnote_ids, extras, safe_mode, lexers, curr_pos,
                   anchor_allowed_pos, branch>>

reset_step ==
    /\ pc = "reset"
    /\ \E n \in {ResetStep(Instance, Cfg)} : Becomes(n)

standardize_step ==
    /\ pc = "standardize"
    /\ \E n \in {StandardizeStep(Instance)} : Becomes(n)

detab_step ==
    /\ pc = "detab"
    /\ \E n \in {DetabStep(Instance)} : Becomes(n)

ws_only_step ==
    /\ pc = "ws_only"
    /\ \E n \in {WsOnlyStep(Instance)} : Becomes(n)

hash_html_step ==
    /\ pc = "hash_html"
    /\ \E n \in {HashHtmlStep(Instance, Cfg)} : Becomes(n)

strip_footnotes_step ==
    /\ pc = "strip_footnotes"
    /\ \E n \in {StripFootnotesStep(Instance)} : Becomes(n)

strip_links_step ==
    /\ pc = "strip_links"
    /\ \E n \in {StripLinksStep(Instance)} : Becomes(n)

block_gamut_step ==
    /\ pc = "block_gamut"
    /\ \E r \in DrawsFor(text) :
           \E n \in {BlockGamutStep(Instance, [Cfg EXCEPT !.rnd = r])} : Becomes(n)

unescape_step ==
    /\ pc = "unescape"
    /\ \E n \in {UnescapeStep(Instance, Cfg)} : Becomes(n)

add_footnotes_step ==
    /\ pc = "add_footnotes"
    /\ \E n \in {AddFootnotesStep(Instance)} : Becomes(n)

return_step ==
    /\ pc = "return"
    /\ \E n \in {ReturnStep(Instance)} : Becomes(n)

Statements ==
    \/ reset_step
    \/ standardize_step
    \/ detab_step
    \/ ws_only_step
    \/ hash_html_step
    \/ strip_footnotes_step
    \/ strip_links_step
    \/ block_gamut_step
    \/ unescape_step
    \/ add_footnotes_step
    \/ return_step

\* One call on a new instance, over all the documents.
ConvertNext == call_convert(Docs, 1) \/ Statements

SpecConvert == ConvertInit /\ [][ConvertNext]_vars

\* Up to MaxCalls calls on one instance.
ReuseNext == call_convert(ReuseDocs, MaxCalls) \/ Statements

SpecReuse == ConvertInit /\ [][ReuseNext]_vars

\* Configurations with and without the 'link-patterns' extra; the
\* link_patterns argument of __init__ is left at its default, None.
PatternExtras == {S \cup P : S \in SUBSET {"footnotes"}, P \in {{}, {"link-patterns"}}}

PatternDocs == {
    Chars(""),
    Chars("a\tb\r\nc"),
    Chars("[a][f]\n\n[f]: /u \"t\""),
    Chars("<div>x</div>"),
    Chars("x[^a]\n\n[^a]: n"),
    Chars("* a\n* b")
}

\* A new instance on which convert has not been called.
FreshInstance ==
    /\ urls = NewInstance.urls
    /\ titles = NewInstance.titles
    /\ html_blocks = NewInstance.html_blocks
    /\ list_level = NewInstance.list_level
    /\ last_li = NewInstance.last_li
    /\ footnotes = NewInstance.footnotes
    /\ footnote_ids = NewInstance.footnote_ids
    /\ text = NewInstance.text
    /\ output = NewInstance.output
    /\ raised = NewInstance.raised
    /\ pc = NewInstance.pc
    /\ input = <<>>
    /\ converted = <<>>
    /\ curr_pos = 0
    /\ anchor_allowed_pos = 0
    /\ branch = "entry"

PatternsInit ==
    /\ extras \in PatternExtras
    /\ safe_mode \in BOOLEAN
    /\ lexers = KnownLexers
    /\ FreshInstance

PatternsNext == call_convert(PatternDocs, 1) \/ Statements

SpecPatterns == PatternsInit /\ [][PatternsNext]_vars

\* Indented code blocks that start with a ':::name' line followed by code
\* lines: the text, the name, and the plain block of the code lines.
CodeCases == {
    [doc |-> Chars("    :::python\n    x = 1"), name |-> Chars("python"),
     plain |-> Chars("<pre><code>x = 1\n</code></pre>")],
    [doc |-> Chars("    :::nolang\n    a < b & c"), name |-> Chars("nolang"),
     plain |-> Chars("<pre><code>a &lt; b &amp; c\n</code></pre>")],
    [doc |-> Chars("    :::python\n\n    if a:\n        b"), name |-> Chars("python"),
     plain |-> Chars("<pre><code>if a:\n    b\n</code></pre>")]
}

CodeDocs == {c.doc : c \in CodeCases} \cup {Chars("    x = 1"), Chars("a\n\n    b\n\nc")}

\* The lexer names _get_pygments_lexer resolves: none when pygments cannot be
\* imported, KnownLexers when it can.
ColorInit ==
    /\ extras \in SUBSET Extras
    /\ safe_mode \in BOOLEAN
    /\ lexers \in {{}, KnownLexers}
    /\ FreshInstance

ColorNext == call_convert(CodeDocs, 1) \/ Statements

SpecColor == ColorInit /\ [][ColorNext]_vars

----------------------------------------------------------------------------
(* _detab as a state machine: one call on a text *)

MaxDetabLen == 5
DetabChars == {"\t", " ", "f", "\n"}

\* The texts of the doctest of _detab, and every text of at most MaxDetabLen
\* characters of DetabChars.
DetabDoctests == {Chars("\tfoo"), Chars("  \tfoo"), Chars("\t  foo"), Chars("  foo"),
                  Chars("  foo\n\tbar\tblam")}
DetabTexts == DetabDoctests \cup UNION {[1..n -> DetabChars] : n \in 0..MaxDetabLen}

DetabInit ==
    /\ extras = {}
    /\ safe_mode = FALSE
    /\ lexers = {}
    /\ FreshInstance

\* m._detab(t) on a new instance
detab_call ==
    /\ pc = "idle"
    /\ \E t \in DetabTexts :
           /\ input' = t
           /\ output' = _detab(t)
           /\ pc' = "done"
    /\ UNCHANGED <<text, curr_pos, anchor_allowed_pos, urls, titles, footnotes,
                   footnote_ids, extras, branch, html_blocks, list_level, last_li,
                   safe_mode, lexers, raised, converted>>

DetabNext == detab_call

SpecDetab == DetabInit /\ [][DetabNext]_vars

----------------------------------------------------------------------------
(* Properties of convert *)

\* C2: convert returns a string for every document under every
\* configuration: no call ends with an exception raised by the markup, also
\* for an indented code block whose first line starts with ':::' while
\* code-color is enabled.
C2_ConvertNeverRaises == pc # "raised"

\* The raw tags the documents hold outside code.
RawTags == {Chars("<b>"), Chars("</b>"), Chars("<div>"), Chars("</div>")}

\* C3: with safe_mode on, no raw tag of the input is in the output, wherever
\* the tag stood: in a paragraph, a list item, a blockquote, the title of a
\* link definition or the body of a footnote definition.
C3_SafeModeRemovesRawHtml ==
    (safe_mode /\ pc = "done") =>
        \A tag \in RawTags : Contains(input, tag) => ~Contains(output, tag)

\* An element that is a digest: the middle of a placeholder token.
IsMd5(c) == Len(c) > 4 /\ SubSeq(c, 1, 4) = "md5:"

\* C4: the string convert returns holds no placeholder token (no document
\* holds one).
C4_NoPlaceholderInOutput ==
    pc = "done" => \A i \in 1..Len(output) : ~IsMd5(output[i])

\* What the call on the instance has given: the string returned or the
\* exception raised.
Outcome == [output |-> output, raised |-> raised]
\* What convert(doc) gives on a newly constructed instance.
FreshOutcome(doc) ==
    Only({[output |-> c.output, raised |-> c.raised] : c \in {convert(doc, Cfg)}})

\* C5: a convert call on an instance that has converted another document
\* before gives what the same call gives on a newly constructed instance.
C5_ReuseEqualsFresh ==
    (Len(converted) >= 2 /\ pc \in {"done", "raised"}) => Outcome = FreshOutcome(input)

\* The instance has stripped a definition of [f] in a first call, and a
\* second call has converted a use of [f] to a paragraph with no link.
C5_Witness ==
    /\ Len(converted) = 2
    /\ converted[1] = Chars("[f]: /u \"t\"")
    /\ input = Chars("[a][f]")
    /\ pc = "done"
    /\ output = Chars("<p>[a][f]</p>\n")

\* The footnote references of the output: where each starts, the id it
\* names and the number it displays.
RefStarts == Occurrences(output, SUP_OPEN)
RefId(i) == Slice(output, i + Len(SUP_OPEN), Find(output, "\"", i + Len(SUP_OPEN)))
RefNumberStart(i) == i + Len(SUP_OPEN) + 2 * Len(RefId(i)) + Len(SUP_HREF) + 2
RefNumber(i) == Slice(output, RefNumberStart(i), FindStr(output, SUP_CLOSE, RefNumberStart(i)))
\* The rank of the id of the reference at i among the ids in the order of
\* their first reference, from 1.
RefRank(i) == Cardinality({RefId(j) : j \in {j \in RefStarts : j <= i}})
\* The entries of the appendix: where each starts and the id it has.
LI_ID == Chars("<li id=\"fn-")
EntryStarts == Occurrences(output, LI_ID)
EntryId(i) == Slice(output, i + Len(LI_ID), Find(output, "\"", i + Len(LI_ID)))
EntryRank(i) == Cardinality({j \in EntryStarts : j <= i})

\* C6: each footnote reference displays the rank of its footnote in the
\* order of the first references from the top of the document body, and the
\* appendix lists the footnotes in that order.
C6_FootnoteNumbersFollowBodyOrder ==
    (pc = "done" /\ "footnotes" \in extras) =>
        /\ \A i \in RefStarts : RefNumber(i) = DecStr(RefRank(i))
        /\ \A k \in EntryStarts :
               \E i \in RefStarts : RefId(i) = EntryId(k) /\ RefRank(i) = EntryRank(k)
        /\ Cardinality(EntryStarts) = Cardinality({RefId(i) : i \in RefStarts})

\* The link text of a reference-style use: what stands between its first
\* brackets.
UseText(u) == Slice(u, 1, Find(u, "]", 0))
RefAnchor(u) ==
    Chars("<p><a href=\"/url\" title=\"Title\">") \o UseText(u) \o Chars("</a></p>\n")

\* C7: a reference-style use whose id equals the id of a definition, letter
\* case ignored, becomes an anchor with the url and the title of the
\* definition and the link text as content.
C7_ReferenceResolvedIgnoringCase ==
    (pc \in {"done", "raised"} /\ input \in RefDocs) =>
        /\ pc = "done"
        /\ \E u \in RefUses \cup ImplicitUses : Contains(input, u) /\ output = RefAnchor(u)

\* [text][id] has been resolved through the definition of [ID].
C7_Witness ==
    /\ pc = "done"
    /\ input = Chars("[text][id]\n\n[ID]: /url \"Title\"")
    /\ output = Chars("<p><a href=\"/url\" title=\"Title\">text</a></p>\n")

\* The markup _do_lists produced during the call: _run_block_gamut stores it
\* in self.html_blocks, and _form_paragraphs puts it back into the output
\* unless safe_mode is on.
RenderedBlocks == {html_blocks[k] : k \in DOMAIN html_blocks}

\* s is a list of two items: without a paragraph element when the document is
\* one of TightDocs, with the content of each item in one paragraph element
\* when it is one of LooseDocs.
TwoItemShape(s) ==
    /\ Cardinality(Occurrences(s, Chars("<li>"))) = 2
    /\ input \in TightDocs => ~Contains(s, Chars("<p>"))
    /\ input \in LooseDocs =>
           /\ Occurrences(s, Chars("<li><p>")) = Occurrences(s, Chars("<li>"))
           /\ Cardinality(Occurrences(s, Chars("</p></li>"))) = 2
           /\ Cardinality(Occurrences(s, Chars("<p>"))) = 2

\* C10: a two-item list with no blank line between the items is rendered with
\* no paragraph element in its items; with a blank line between them, the
\* content of each of the two items is rendered as one paragraph element.
C10_ListTightness ==
    (pc = "done" /\ input \in TightDocs \cup LooseDocs) =>
        /\ Cardinality(RenderedBlocks) = 1
        /\ \A s \in RenderedBlocks :
               /\ TwoItemShape(s)
               /\ ~safe_mode => output = s \o Chars("\n")

\* The two items of '* a', a blank line, '* b' are paragraphs.
C10_Witness ==
    /\ pc = "done"
    /\ input = Chars("* a\n\n* b")
    /\ output = Chars("<ul>\n<li><p>a</p></li>\n<li><p>b</p></li>\n</ul>\n")

\* <hN>T</hN> followed by the newline convert appends
HeaderOutput(T, n) ==
    Chars("<h") \o DecStr(n) \o Chars(">") \o T \o Chars("</h") \o DecStr(n) \o Chars(">\n")

\* C11 as stated: 'T' underlined by '=' and '# T' both convert to <h1>T</h1>,
\* 'T' underlined by '-' and '## T' both convert to <h2>T</h2>.
C11_HeaderNotationsAsStated ==
    \A T \in PlainHeaderTexts, n \in HeaderLevels :
        (pc \in {"done", "raised"} /\
         input \in {Atx(T, n)} \cup {Setext(T, n, k) : k \in UnderlineLengths}) =>
            pc = "done" /\ output = HeaderOutput(T, n)

\* C11, amended: under every configuration the underline notation of a header
\* text gives what the leading-hash notation of the same text and level
\* gives; with safe_mode off both give <h1>T</h1> (underline '=', one hash)
\* or <h2>T</h2> (underline '-', two hashes).
C11_HeaderNotationsAgree ==
    \A T \in HeaderTexts, n \in HeaderLevels :
        /\ (pc \in {"done", "raised"} /\ input \in {Setext(T, n, k) : k \in UnderlineLengths}) =>
               Outcome = FreshOutcome(Atx(T, n))
        /\ (pc \in {"done", "raised"} /\ ~safe_mode /\ T \in PlainHeaderTexts /\
            input \in {Atx(T, n)} \cup {Setext(T, n, k) : k \in UnderlineLengths}) =>
               pc = "done" /\ output = HeaderOutput(T, n)

\* 'Title' underlined by '---' has been converted to <h2>Title</h2>.
C11_Witness ==
    /\ pc = "done"
    /\ input = Chars("Title\n---")
    /\ output = Chars("<h2>Title</h2>\n")

\* C12: when convert raises for the 'link-patterns' extra enabled without
\* link_patterns rules, no statement of the call has changed the text or a
\* side-table: the text is the argument, and the link table, the block store
\* and the footnote store are as __init__ left them.
C12_ConfigErrorBeforeProcessing ==
    (pc = "raised" /\ "link-patterns" \in extras) =>
        /\ text = input
        /\ urls = NewInstance.urls
        /\ titles = NewInstance.titles
        /\ html_blocks = NewInstance.html_blocks
        /\ footnotes = NewInstance.footnotes

\* C13: convert is deterministic: every call with the same text and the same
\* configuration gives what the reference run gives, for texts with email
\* auto-links too.
C13_ConversionDeterministic ==
    pc \in {"done", "raised"} => Outcome = FreshOutcome(input)

\* C14: with code-color enabled, a code block that starts with a ':::name'
\* line followed by code lines, whose name no lexer is found for (pygments
\* missing or name unknown), is rendered as the plain escaped <pre><code>
\* block of its code lines, and convert returns.
C14_UnresolvedLexerGivesPlainBlock ==
    \A c \in CodeCases :
        (pc \in {"done", "raised"} /\ "code-color" \in extras /\ input = c.doc /\
         c.name \notin lexers) =>
            /\ pc = "done"
            /\ RenderedBlocks = {c.plain}
            /\ ~safe_mode => output = c.plain \o Chars("\n")

\* pygments is missing, and the block declared as python has been converted
\* to a plain block.
C14_Witness ==
    /\ pc = "done"
    /\ extras = {"code-color"}
    /\ lexers = {}
    /\ input = Chars("    :::python\n    x = 1")
    /\ output = Chars("<pre><code>x = 1\n</code></pre>\n")

\* The lists that _do_lists finds in t at the given list_level, and where
\* they begin.
ListsFound(t, level) ==
    {Matches("list", t, level)[k] : k \in 1..Len(Matches("list", t, level))}
ListStarts(t, level) == {m.end - Len(m.lst) : m \in ListsFound(t, level)}

\* a is the start of t or the index right after a blank line ("\n\n"), the
\* first line of t being blank when t starts with "\n".
AtStartOrAfterBlankLine(t, a) ==
    \/ a = 0
    \/ a = 1 /\ At(t, 0) = "\n"
    \/ a >= 2 /\ At(t, a - 1) = "\n" /\ At(t, a - 2) = "\n"

\* C15: at list_level 0 a list is recognised only at the start of the text or
\* right after a blank line, so a marker line in the middle of a paragraph
\* stays paragraph text; at list_level > 0 a list is recognised at the start
\* of any line (a marker line that follows a text line inside a list item
\* starts a sub-list).
C15_ListRecognition ==
    /\ pc = "block_gamut" =>
           /\ \A a \in ListStarts(text, 0) : AtStartOrAfterBlankLine(text, a)
           /\ \A i \in 0..(Len(text) - 1) :
                  (IsLineStart(text, i) /\ WholeListEnd(text, i) >= 0) =>
                      \E m \in ListsFound(text, 1) : m.start <= i /\ i < m.end
    /\ (pc \in {"done", "raised"} /\ input \in MidParagraphDocs) =>
           /\ pc = "done"
           /\ html_blocks = <<>>
           /\ output = Chars("<p>") \o input \o Chars("</p>\n")
    /\ (pc \in {"done", "raised"} /\ input \in TopListDocs) =>
           /\ pc = "done"
           /\ Chars("<ol>\n<li>Oops</li>\n</ol>") \in RenderedBlocks
    /\ \A c \in NestedCases :
           (pc \in {"done", "raised"} /\ input = c.doc /\ ~safe_mode) =>
               pc = "done" /\ output = c.html

\* '8. Oops' on the second line of a paragraph has stayed paragraph text.
C15_Witness ==
    /\ pc = "done"
    /\ input = Chars("I recommend\n8. Oops")
    /\ output = Chars("<p>I recommend\n8. Oops</p>\n")

\* '8. Oops' on the third line of a list item has become a sub-list.
C15_WitnessNested ==
    /\ pc = "done"
    /\ input = Chars("* a\n  text\n  8. Oops")
    /\ Contains(output, Chars("<ol>\n<li>Oops</li>\n</ol></li>"))

\* t from its i-th character on, the i-th character standing at column col of
\* its line, with every tab replaced by the spaces (between 1 and tab_width)
\* that reach the next column that is a multiple of tab_width.
RECURSIVE ToTabStops(_, _, _)
ToTabStops(t, i, col) ==
    IF i > Len(t) THEN <<>>
    ELSE IF t[i] = "\t"
    THEN Spaces(tab_width - (col % tab_width))
            \o ToTabStops(t, i + 1, col + tab_width - (col % tab_width))
    ELSE <<t[i]>> \o ToTabStops(t, i + 1, IF t[i] = "\n" THEN 0 ELSE col + 1)

\* C16: _detab replaces every tab by between 1 and tab_width spaces so that
\* the next character stands at a column of its line that is a multiple of
\* tab_width; the result holds no tab, the other characters keep their order,
\* a text without tab is returned unchanged, and the doctest holds.
C16_DetabToTabStops ==
    pc = "done" =>
        /\ output = ToTabStops(input, 1, 0)
        /\ ~Contains(output, <<"\t">>)
        /\ ~Contains(input, <<"\t">>) => output = input
        /\ input = Chars("\tfoo") => output = Chars("    foo")
        /\ input = Chars("  \tfoo") => output = Chars("    foo")
        /\ input = Chars("\t  foo") => output = Chars("      foo")
        /\ input = Chars("  foo\n\tbar\tblam") => output = Chars("  foo\n    bar blam")

\* The third doctest text has been detabbed: the second tab, at column 7 of
\* its line, has become one space.
C16_Witness ==
    /\ pc = "done"
    /\ input = Chars("  foo\n\tbar\tblam")
    /\ output = Chars("  foo\n    bar blam")

\* No element of seq occurs at two indices.
NoRepeat(seq) == \A i, j \in DOMAIN seq : i # j => seq[i] # seq[j]

\* The opening tag of the appendix item of footnote id.
FootnoteItemTag(id) == Chars("<li id=\"fn-") \o id \o Chars("\">")

\* C20: with the footnotes extra, self.footnote_ids holds each footnote id at
\* most once (a second reference to a defined footnote adds no entry), so the
\* appendix of the returned text has one list item per referenced footnote
\* and no two list items have the same id.
C20_FootnoteIdsHoldEachIdOnce ==
    "footnotes" \in extras =>
        /\ NoRepeat(footnote_ids)
        /\ pc = "done" =>
               \A id \in DOMAIN footnotes :
                   Cardinality(Occurrences(output, FootnoteItemTag(id))) <= 1

\* The returned text holds the footnote appendix.
HasAppendix(t) == Contains(t, Chars("<div class=\"footnotes\">"))

\* C21: with the footnotes extra, the text convert returns holds the footnote
\* appendix exactly when a footnote reference of the body was resolved: none
\* for a document whose footnote definitions are never referenced, one for a
\* document that references a defined footnote.
C21_AppendixIffReferenced ==
    (pc = "done" /\ "footnotes" \in extras) =>
        (HasAppendix(output) <=> footnote_ids # <<>>)

\* What convert(doc) gives on a newly constructed instance with safe_mode off
\* and the rest of the configuration as it is.
UnsafeOutcome(doc) ==
    Only({[output |-> c.output, raised |-> c.raised]
          : c \in {convert(doc, [Cfg EXCEPT !.safe_mode = FALSE])}})

\* C22: for an input without any '<', convert with safe_mode on gives what
\* convert with safe_mode off gives: the markup the passes generate (headers,
\* lists, blockquotes, code blocks, code spans, rules) is not replaced by the
\* removed marker.
C22_SafeModeKeepsGeneratedMarkup ==
    (pc \in {"done", "raised"} /\ safe_mode /\ ~Contains(input, <<"<">>)) =>
        Outcome = UnsafeOutcome(input)

\* The rendered list s has taken item x through the block pipeline (its text
\* is a paragraph), or through the inline pipeline.
ItemBlock(s, x) == Contains(s, Chars("<li><p>") \o x \o Chars("</p>"))
ItemInline(s, x) == Contains(s, Chars("<li>") \o x) /\ ~Contains(s, Chars("<p>") \o x)

\* The rendering of the top-level list: the block that holds item c.
TopLists == {s \in RenderedBlocks : Contains(s, Chars("c"))}

\* C24 as stated: a list item is processed with the block pipeline whenever it
\* holds a blank line, is preceded by a blank line, or holds a nested list;
\* only an item with none of these is scanned for nested lists and then
\* processed inline-only.
C24_NestedListItemIsBlockAsStated ==
    \A k \in ItemCases :
        (pc = "done" /\ input = k.doc) =>
            /\ TopLists # {}
            /\ \A s \in TopLists :
                   /\ IF k.a.blank \/ k.a.after_blank \/ k.a.nested
                      THEN ItemBlock(s, <<"a">>) ELSE ItemInline(s, <<"a">>)
                   /\ IF k.c.blank \/ k.c.after_blank \/ k.c.nested
                      THEN ItemBlock(s, <<"c">>) ELSE ItemInline(s, <<"c">>)

\* C24, amended: a list item is processed with the block pipeline exactly when
\* its text, the newlines that end it included, holds a blank line or a blank
\* line precedes it; an item with neither property, also one that holds a
\* nested list, is scanned for nested lists and then processed inline-only.
C24_ItemPipeline ==
    \A k \in ItemCases :
        (pc = "done" /\ input = k.doc) =>
            /\ TopLists # {}
            /\ \A s \in TopLists :
                   /\ IF k.a.blank \/ k.a.after_blank
                      THEN ItemBlock(s, <<"a">>) ELSE ItemInline(s, <<"a">>)
                   /\ IF k.c.blank \/ k.c.after_blank
                      THEN ItemBlock(s, <<"c">>) ELSE ItemInline(s, <<"c">>)
                   /\ (k.a.nested /\ ~safe_mode) => Contains(s, Chars("<li>b</li>"))

\* Item a of '* a', '    * b', '* c' holds a nested list and has been
\* processed inline-only.
C24_Witness ==
    /\ pc = "done"
    /\ input = Chars("* a\n    * b\n* c")
    /\ output = Chars("<ul>\n<li>a\n<ul>\n<li>b</li>\n</ul></li>\n<li>c</li>\n</ul>\n")

\* C25: with the footnotes extra, a reference [^id] resolves to the
\* definition '[^id]: ...' written with the same id text, ids with upper-case
\* letters included: the key the definition is stored under is the key the
\* reference looks up.
C25_SameIdResolves ==
    \A id \in FootnoteIdTexts :
        (pc = "done" /\ "footnotes" \in extras /\ input = SameIdDoc(id)) =>
            /\ Len(footnote_ids) = 1
            /\ \A k \in DOMAIN footnote_ids : footnote_ids[k] \in DOMAIN footnotes
            /\ Contains(output, Chars("<sup class=\"footnote-ref\""))
            /\ ~Contains(output, Chars("[^"))

\* The anchor with link text a for a definition with this url and title.
AnchorFor(url, title) ==
    A_HREF \o url \o <<"\"">>
        \o (IF title = <<>> THEN <<>> ELSE TITLE_ATTR \o title \o <<"\"">>)
        \o Chars(">a</a>")

\* C26: the url and the title of the element emitted for a reference-style
\* link come from one definition.  When the id is defined twice, the last
\* definition gives both: if it has no title the element has no title
\* attribute, whatever title an earlier definition of the id has.
C26_UrlAndTitleFromLastDefinition ==
    \A k \in TwiceDefinedCases :
        (pc = "done" /\ input = k.doc) =>
            output = Chars("<p>") \o AnchorFor(k.url, k.title) \o Chars("</p>\n")

\* C27: self.list_level is never negative and is the number of
\* _process_list_items invocations that are active: between the statements of
\* convert, and when convert has returned or has raised, no invocation is
\* active and list_level is 0.
C27_ListLevelIsNestingDepth == list_level >= 0 /\ (pc # "idle" => list_level = 0)

\* C29: a character of g_escape_table that follows a backslash in paragraph
\* text is emitted as that character, without the backslash, and no span pass
\* takes it for a delimiter: the paragraph holds the literal text and no
\* element.  Escaped backticks neither open nor close a code span.
C29_EscapedCharIsLiteral ==
    \A k \in EscapeCases :
        (pc = "done" /\ input = k.doc) =>
            output = Chars("<p>") \o k.literal \o Chars("</p>\n")

----------------------------------------------------------------------------
(* _run_span_gamut as a state machine: one step per statement.  pc names    *)
(* the statement the call runs next.                                        *)

\* A pass order that scans for links before it looks for code spans.
NextPass_links_first(p, extra_set) ==
    CASE p = "_do_links" -> "_do_code_spans"
      [] p = "_do_code_spans" -> "_escape_special_chars"
      [] p = "_escape_special_chars" -> "_do_auto_links"
      [] p = "_do_auto_links" ->
            IF "link-patterns" \in extra_set THEN "_do_link_patterns"
            ELSE "_encode_amps_and_angles"
      [] p = "_do_link_patterns" -> "_encode_amps_and_angles"
      [] p = "_encode_amps_and_angles" -> "_do_italics_and_bold"
      [] p = "_do_italics_and_bold" -> "hard_breaks"
      [] p = "hard_breaks" -> "return"

\* The statement of _run_span_gamut that follows statement p.
NextPass(p, extra_set) ==
    CASE p = "_do_code_spans" -> "_escape_special_chars"
      [] p = "_escape_special_chars" -> "_do_links"
      [] p = "_do_links" -> "_do_auto_links"
      [] p = "_do_auto_links" ->
            IF "link-patterns" \in extra_set THEN "_do_link_patterns"
            ELSE "_encode_amps_and_angles"
      [] p = "_do_link_patterns" -> "_encode_amps_and_angles"
      [] p = "_encode_amps_and_angles" -> "_do_italics_and_bold"
      [] p = "_do_italics_and_bold" -> "hard_breaks"
      [] p = "hard_breaks" -> "return"

\* The first statement: the one no statement is followed by.
FirstPass ==
    CHOOSE p \in {"_do_code_spans", "_do_links"} :
        \A q \in {"_do_code_spans", "_escape_special_chars", "_do_links"} :
            NextPass(q, {}) # p

\* `[a](/u)` *b*
CodeSpanWithLink ==
    <<BackTick>> \o Chars("[a](/u)") \o <<BackTick>> \o Chars(" *b*")

\* The texts of the spans.
SpanTexts == {
    CodeSpanWithLink,
    Chars("*e* [a](/u) <http://x.y>"),
    Chars("a  \nb & c"),
    Chars("<b>x</b> __s__"),
    Chars("[a][f] AT&T"),
    Chars("![i](/s \"t\") a_b_c")
}

SpanExtras == {{}, {"code-friendly"}, {"link-patterns"}}

SpanInit ==
    /\ extras \in SpanExtras
    /\ safe_mode \in BOOLEAN
    /\ lexers = {}
    /\ urls = LinkUrls
    /\ titles = LinkTitles
    /\ footnotes = <<>>
    /\ footnote_ids = <<>>
    /\ html_blocks = <<>>
    /\ list_level = 0
    /\ last_li = FALSE
    /\ input = <<>>
    /\ text = <<>>
    /\ output = <<>>
    /\ raised = "none"
    /\ pc = "idle"
    /\ converted = <<>>
    /\ curr_pos = 0
    /\ anchor_allowed_pos = 0
    /\ branch = "entry"

\* What the span passes read of self.
SpanEnv ==
    [extras |-> extras, safe_mode |-> safe_mode, lexers |-> lexers, urls |-> urls,
     titles |-> titles, footnotes |-> footnotes, rnd |-> Draws]

\* The statement at pc has run and has left the buffer as t.
SpanPassed(t) ==
    /\ text' = t
    /\ pc' = NextPass(pc, extras)
    /\ UNCHANGED <<curr_pos, anchor_allowed_pos, urls, titles, footnotes, footnote_ids,
                   extras, branch, input, html_blocks, list_level, last_li, safe_mode,
                   lexers, output, raised, converted>>

call_run_span_gamut ==
    /\ pc = "idle"
    /\ \E t \in SpanTexts :
           /\ input' = t
           /\ text' = t
    /\ pc' = FirstPass
    /\ UNCHANGED <<curr_pos, anchor_allowed_pos, urls, titles, footnotes, footnote_ids,
                   extras, branch, html_blocks, list_level, last_li, safe_mode,
                   lexers, output, raised, converted>>

span_code_spans == pc = "_do_code_spans" /\ SpanPassed(_do_code_spans(text))

span_escape_special_chars ==
    pc = "_escape_special_chars" /\ SpanPassed(_escape_special_chars(text, safe_mode))

span_do_links ==
    /\ pc = "_do_links"
    /\ \E r \in {_do_links(text, footnote_ids, SpanEnv)} : SpanPassed(r.text)

span_auto_links == pc = "_do_auto_links" /\ SpanPassed(_do_auto_links(text, Draws))

\* self.link_patterns is None: the statement raises.
span_link_patterns ==
    /\ pc = "_do_link_patterns"
    /\ \E r \in {_do_link_patterns([text |-> text, footnote_ids |-> footnote_ids,
                                    err |-> "none"])} :
           /\ raised' = r.err
           /\ pc' = IF r.err = "none" THEN NextPass(pc, extras) ELSE "raised"
           /\ text' = r.text
    /\ UNCHANGED <<curr_pos, anchor_allowed_pos, urls, titles, footnotes, footnote_ids,
                   extras, branch, input, html_blocks, list_level, last_li, safe_mode,
                   lexers, output, converted>>

span_amps_and_angles ==
    pc = "_encode_amps_and_angles" /\ SpanPassed(_encode_amps_and_angles(text))

span_italics_and_bold ==
    pc = "_do_italics_and_bold" /\ SpanPassed(_do_italics_and_bold(text, extras))

span_hard_breaks == pc = "hard_breaks" /\ SpanPassed(DoHardBreaks(text))

SpanNext ==
    \/ call_run_span_gamut
    \/ span_code_spans
    \/ span_escape_special_chars
    \/ span_do_links
    \/ span_auto_links
    \/ span_link_patterns
    \/ span_amps_and_angles
    \/ span_italics_and_bold
    \/ span_hard_breaks

SpecSpan == SpanInit /\ [][SpanNext]_vars

SpanOrder(with_patterns) ==
    <<"_do_code_spans", "_escape_special_chars", "_do_links", "_do_auto_links">>
    \o (IF with_patterns THEN <<"_do_link_patterns">> ELSE <<>>)
    \o <<"_encode_amps_and_angles", "_do_italics_and_bold", "hard_breaks", "return">>

InOrderStep ==
    LET order == SpanOrder("link-patterns" \in extras)
    IN  \A k \in 1..(Len(order) - 1) :
            (pc = order[k] /\ pc' # pc) => pc' \in {order[k + 1], "raised"}

----------------------------------------------------------------------------
(* _run_block_gamut as a state machine: one step per statement.  pc names   *)
(* the statement the call runs next.                                        *)

\* A stage order that looks for horizontal rules before headers.
NextStage_rules_first(p) ==
    CASE p = "hr" -> "_do_headers"
      [] p = "_do_headers" -> "_do_lists"
      [] p = "_do_lists" -> "_do_code_blocks"
      [] p = "_do_code_blocks" -> "_do_block_quotes"
      [] p = "_do_block_quotes" -> "_hash_html_blocks"
      [] p = "_hash_html_blocks" -> "_form_paragraphs"
      [] p = "_form_paragraphs" -> "return"

\* The statement of _run_block_gamut that follows statement p.
NextStage(p) ==
    CASE p = "_do_headers" -> "hr"
      [] p = "hr" -> "_do_lists"
      [] p = "_do_lists" -> "_do_code_blocks"
      [] p = "_do_code_blocks" -> "_do_block_quotes"
      [] p = "_do_block_quotes" -> "_hash_html_blocks"
      [] p = "_hash_html_blocks" -> "_form_paragraphs"
      [] p = "_form_paragraphs" -> "return"

\* The first statement: the one no statement is followed by.
FirstStage == CHOOSE p \in {"_do_headers", "hr"} : \A q \in {"_do_headers", "hr"} : NextStage(q) # p

\* Texts as convert hands them to the block pipeline: they end with the two
\* newlines convert appends.
BlockTexts == {t \o Chars("\n\n") : t \in {
    Chars("Title\n---"),
    Chars("a\n\n* * *\n\nb"),
    Chars("* a\n* b\n\np"),
    Chars("    code\n\n> q"),
    Chars("# h\nb"),
    Chars("* a\n\n    Title\n    ---"),
    Chars("> Title\n> ---"),
    Chars("> a\n>\n> * * *"),
    Chars("1. a\n\n    > q\n\n    * i"),
    Chars("* a\n>")
}}

BlockInit ==
    /\ extras \in {{}, {"code-friendly"}}
    /\ safe_mode \in BOOLEAN
    /\ lexers = {}
    /\ FreshInstance

\* The statement at pc has run and has left the call as r.
StagePassed(r) ==
    /\ text' = IF r.err = "none" THEN r.text ELSE text
    /\ html_blocks' = r.html_blocks
    /\ footnote_ids' = r.footnote_ids
    /\ list_level' = r.list_level
    /\ last_li' = r.last_li
    /\ raised' = r.err
    /\ pc' = IF r.err = "none" THEN NextStage(pc) ELSE "raised"
    /\ UNCHANGED <<curr_pos, anchor_allowed_pos, urls, titles, footnotes, extras, branch,
                   input, safe_mode, lexers, output, converted>>

call_run_block_gamut ==
    /\ pc = "idle"
    /\ \E t \in BlockTexts :
           /\ input' = t
           /\ text' = t
    /\ pc' = FirstStage
    /\ UNCHANGED <<curr_pos, anchor_allowed_pos, urls, titles, footnotes, footnote_ids,
                   extras, branch, html_blocks, list_level, last_li, safe_mode,
                   lexers, output, raised, converted>>

stage_headers ==
    /\ pc = "_do_headers"
    /\ \E r \in {_do_headers(BlockState(Instance), Env(Instance, Cfg))} : StagePassed(r)

stage_horizontal_rules ==
    /\ pc = "hr"
    /\ \E r \in {HorizontalRules(BlockState(Instance))} : StagePassed(r)

stage_lists ==
    /\ pc = "_do_lists"
    /\ \E r \in {_do_lists(BlockState(Instance), Env(Instance, Cfg))} : StagePassed(r)

stage_code_blocks ==
    /\ pc = "_do_code_blocks"
    /\ \E r \in {_do_code_blocks(BlockState(Instance), Env(Instance, Cfg))} : StagePassed(r)

stage_block_quotes ==
    /\ pc = "_do_block_quotes"
    /\ \E r \in {_do_block_quotes(BlockState(Instance), Env(Instance, Cfg))} : StagePassed(r)

stage_hash_html_blocks ==
    /\ pc = "_hash_html_blocks"
    /\ \E r \in {HashBlocks(BlockState(Instance))} : StagePassed(r)

stage_form_paragraphs ==
    /\ pc = "_form_paragraphs"
    /\ \E r \in {_form_paragraphs(BlockState(Instance), Env(Instance, Cfg))} : StagePassed(r)

BlockNext ==
    \/ call_run_block_gamut
    \/ stage_headers
    \/ stage_horizontal_rules
    \/ stage_lists
    \/ stage_code_blocks
    \/ stage_block_quotes
    \/ stage_hash_html_blocks
    \/ stage_form_paragraphs

SpecBlock == BlockInit /\ [][BlockNext]_vars

\* The order of the statements of a run.
StageOrder ==
    <<"_do_headers", "hr", "_do_lists", "_do_code_blocks", "_do_block_quotes",
      "_hash_html_blocks", "_form_paragraphs", "return">>

InStageOrderStep ==
    \A k \in 1..(Len(StageOrder) - 1) :
        (pc = StageOrder[k] /\ pc' # pc) => pc' \in {StageOrder[k + 1], "raised"}

\* What _run_block_gamut(input) gives on the instance as BlockInit leaves it.
WholeRun ==
    Only({r : r \in {_run_block_gamut(BlockState([NewInstance EXCEPT !.text = input]),
                                      Env(Instance, Cfg))}})

\* No paragraph element of t opens right before a block-level element.
BlockTags == {Chars("<h"), Chars("<ul"), Chars("<ol"), Chars("<pre"), Chars("<blockquote"),
              Chars("<li")}
NoBlockInParagraph(t) == \A tag \in BlockTags : ~Contains(t, Chars("<p>") \o tag)

\* C28: a run of the block pipeline applies its stages in the order headers,
\* horizontal rules, lists, code blocks, blockquotes, hashing of the block
\* HTML, paragraph formation, and gives what _run_block_gamut gives, which the
\* runs for list items and blockquote bodies use too.  A text line followed by
\* a line of dashes becomes a level-2 header and no rule, at the top level, in
\* a list item and in a blockquote; no generated block is wrapped in a
\* paragraph element.
C28_BlockStageOrder ==
    /\ [](pc = "_do_headers" => text = input)
    /\ [][InStageOrderStep]_vars
    /\ [](pc = "return" => (text = WholeRun.text /\ html_blocks = WholeRun.html_blocks))
    /\ []((pc = "return" /\ Contains(input, Chars("Title"))) =>
             /\ \E s \in RenderedBlocks : Contains(s, Chars("<h2>Title</h2>"))
             /\ \A s \in RenderedBlocks : ~Contains(s, Chars("<hr"))
             /\ ~Contains(text, Chars("<hr")))
    /\ [](pc = "return" => NoBlockInParagraph(text))
    /\ [](pc = "return" => \A s \in RenderedBlocks : NoBlockInParagraph(s))

\* The run on 'Title' underlined by '---' has returned a level-2 header.
C28_Witness ==
    /\ pc = "return"
    /\ input = Chars("Title\n---\n\n")
    /\ text = Chars("<h2>Title</h2>")

====
